---- MODULE Spec2Model ----
(***************************************************************************)
(* Listing analysis automation: the LangGraph pipeline                     *)
(*   readSheet -> scrape -> analyzeImages -> analyzeWithGPT -> sendEmail   *)
(*   -> saveToDrive                                                        *)
(* with the loops of scrapeListings and analyzeImages modelled one         *)
(* iteration at a time.  External services (sheet, scraping API, image     *)
(* download, Rekognition, the language model, mail, Drive) answer          *)
(* nondeterministically.                                                   *)
(***************************************************************************)
EXTENDS Integers, Sequences, FiniteSets, TLC

VARIABLES
    pc,        \* position of the single thread of control
    state,     \* the WorkflowState held by the graph (channels merged so far)
    loc,       \* local variables of the stage that is running
    trace,     \* observable calls made so far: requests, parser calls, delays
    executed   \* graph nodes that have completed, in completion order

vars == <<pc, state, loc, trace, executed>>

----------------------------------------------------------------------------
(* Bounds of the exploration *)

MaxRows == 3        \* data rows of the sheet in the scraping specification
WfMaxRows == 2      \* data rows of the sheet in the whole-pipeline specification

(* Program constants *)

ScrapeDelayMs == 2000
ImageDelayMs == 300
ImagesPerListing == 5

----------------------------------------------------------------------------
(* Generic helpers *)

IsPrefix(s, t) == Len(s) <= Len(t) /\ SubSeq(t, 1, Len(s)) = s

Range(s) == {s[i] : i \in 1..Len(s)}

RECURSIVE SelectSeqIdx(_, _, _)
\* the subsequence of s at the indices i (in order) for which keep[i] holds
SelectSeqIdx(s, keep, i) ==
    IF i > Len(s) THEN <<>>
    ELSE (IF keep[i] THEN <<s[i]>> ELSE <<>>) \o SelectSeqIdx(s, keep, i + 1)

\* Array.prototype.slice(0, n)
Slice0(s, n) == SubSeq(s, 1, IF Len(s) < n THEN Len(s) ELSE n)

----------------------------------------------------------------------------
(* JavaScript Map with insertion order: a sequence of [key, val] entries *)

EmptyMap == <<>>

MapHas(m, k) == \E i \in 1..Len(m) : m[i].key = k

MapGet(m, k) == m[CHOOSE i \in 1..Len(m) : m[i].key = k].val

MapSet(m, k, v) ==
    IF MapHas(m, k)
    THEN [i \in 1..Len(m) |-> IF m[i].key = k THEN [key |-> k, val |-> v] ELSE m[i]]
    ELSE Append(m, [key |-> k, val |-> v])

MapKeys(m) == [i \in 1..Len(m) |-> m[i].key]

MapSize(m) == Len(m)

----------------------------------------------------------------------------
(* Identifiers: strings as sequences of characters *)

Digits == {"0", "1", "2", "3", "4", "5", "6", "7", "8", "9"}
UpperLetters == {"A", "B", "Z"}
LowerLetters == {"a", "b", "z"}

\* String.prototype.toUpperCase on one character
UpperChar(c) ==
    CASE c = "a" -> "A"
      [] c = "b" -> "B"
      [] c = "z" -> "Z"
      [] OTHER -> c

ToUpperCase(s) == [i \in 1..Len(s) |-> UpperChar(s[i])]

\* a pattern that takes any letter in the first place
MatchesAsinPatternAnyLetter(s) ==
    /\ Len(s) = 10
    /\ UpperChar(s[1]) \in UpperLetters
    /\ \A i \in 2..10 : UpperChar(s[i]) \in Digits \cup UpperLetters

\* /^B[0-9A-Z]{9}$/i
MatchesAsinPattern(s) ==
    /\ Len(s) = 10
    /\ UpperChar(s[1]) = "B"
    /\ \A i \in 2..10 : UpperChar(s[i]) \in Digits \cup UpperLetters

\* the identifier B00000000<d>
Asin(d) == <<"B", "0", "0", "0", "0", "0", "0", "0", "0", d>>

LowerAsin(d) == <<"b", "0", "0", "0", "0", "0", "0", "0", "0", d>>

\* the cell values a sheet row can carry in the exploration
RowValues ==
    { Asin("1"), Asin("2"), Asin("3"), LowerAsin("1"),
      <<"A", "0", "0", "0", "0", "0", "0", "0", "0", "1">>,
      <<"B", "1", "2">>, <<>> }

RECURSIVE SeqsUpTo(_, _)
SeqsUpTo(S, n) ==
    IF n = 0 THEN {<<>>}
    ELSE LET shorter == SeqsUpTo(S, n - 1)
         IN shorter \cup {Append(s, x) : s \in {t \in shorter : Len(t) = n - 1}, x \in S}

RECURSIVE Dedupe(_)
\* Array.from(new Set(xs)): first occurrences, in order
Dedupe(xs) ==
    IF xs = <<>> THEN <<>>
    ELSE LET init == Dedupe(SubSeq(xs, 1, Len(xs) - 1))
             last == xs[Len(xs)]
         IN IF last \in Range(init) THEN init ELSE Append(init, last)

----------------------------------------------------------------------------
(* The graph's state and its channel reducers *)

Channels == {"asins", "scrapedListings", "imageAnalysis", "gptAnalysis",
             "emailSent", "driveSaved", "errors"}

\* channels whose reducer ends in a default value
ChannelDefault(k) ==
    CASE k = "asins" -> <<>>
      [] k = "scrapedListings" -> EmptyMap
      [] k = "imageAnalysis" -> EmptyMap
      [] k = "errors" -> <<>>

HasDefault(k) == k \in {"asins", "scrapedListings", "imageAnalysis", "errors"}

\* a reducer for which a missing update resets the channel that has a default
MergeStateResets(left, right) ==
    LET present == {k \in Channels :
                      k \in DOMAIN right \/ k \in DOMAIN left \/ HasDefault(k)}
    IN [k \in present |->
          IF k \in DOMAIN right THEN right[k]
          ELSE IF HasDefault(k) /\ k = "errors" THEN ChannelDefault(k)
          ELSE IF k \in DOMAIN left THEN left[k]
          ELSE ChannelDefault(k)]

\* right ?? left ?? default, channel by channel; an absent field is undefined
MergeState(left, right) ==
    LET present == {k \in Channels :
                      k \in DOMAIN right \/ k \in DOMAIN left \/ HasDefault(k)}
    IN [k \in present |->
          IF k \in DOMAIN right THEN right[k]
          ELSE IF k \in DOMAIN left THEN left[k]
          ELSE ChannelDefault(k)]

initialState ==
    [asins |-> <<>>, scrapedListings |-> EmptyMap, imageAnalysis |-> EmptyMap,
     errors |-> <<>>]

NoAsin == <<>>

ErrorEntry(step, asin, message) == [step |-> step, asin |-> asin, message |-> message]

\* an observable call: ev is "request", "parse", "image", "invoke" or "delay";
\* resp is what the called service answered; pos is the position of an image;
\* ms is the length of a delay
Event(ev, asin, resp, pos, ms) ==
    [ev |-> ev, asin |-> asin, resp |-> resp, pos |-> pos, ms |-> ms]

NoResp == [status |-> "none", markdown |-> "missing", html |-> "missing"]

Rejected == [status |-> "thrown", markdown |-> "missing", html |-> "missing"]

NoLoc == [stage |-> "none"]

NodeOrder ==
    <<"readSheet", "scrape", "analyzeImages", "analyzeWithGPT", "sendEmail", "saveToDrive">>

\* a graph whose edge out of analyzeWithGPT bypasses sendEmail
NodeAfterSkipping(node) ==
    CASE node = "readSheet" -> "scrape"
      [] node = "scrape" -> "analyzeImages"
      [] node = "analyzeImages" -> "analyzeWithGPT"
      [] node = "analyzeWithGPT" -> "saveToDrive"
      [] node = "sendEmail" -> "saveToDrive"
      [] node = "saveToDrive" -> "END"

\* the edges of the graph
NodeAfter(node) ==
    CASE node = "readSheet" -> "scrape"
      [] node = "scrape" -> "analyzeImages"
      [] node = "analyzeImages" -> "analyzeWithGPT"
      [] node = "analyzeWithGPT" -> "sendEmail"
      [] node = "sendEmail" -> "saveToDrive"
      [] node = "saveToDrive" -> "END"

----------------------------------------------------------------------------
(* Node readSheet: readAsinsFromSheet *)

\* a reader that forgets to remove the repeats
ValidAsinsKeepsRepeats(rows) ==
    LET body == SubSeq(rows, 2, Len(rows))
        keep == [i \in 1..Len(body) |-> body[i] # <<>> /\ MatchesAsinPattern(body[i])]
        valid == SelectSeqIdx(body, keep, 1)
    IN [i \in 1..Len(valid) |-> ToUpperCase(valid[i])]

\* the rows after the header, validated, upper-cased and deduplicated
ValidAsins(rows) ==
    LET body == SubSeq(rows, 2, Len(rows))
        keep == [i \in 1..Len(body) |-> body[i] # <<>> /\ MatchesAsinPattern(body[i])]
        valid == SelectSeqIdx(body, keep, 1)
    IN Dedupe([i \in 1..Len(valid) |-> ToUpperCase(valid[i])])

ReadSheetResult(st, rows) ==
    IF Len(rows) = 0
    THEN [asins |-> <<>>,
          errors |-> Append(st.errors,
                            ErrorEntry("googleSheets", NoAsin, "No ASINs found in sheet"))]
    ELSE [asins |-> ValidAsins(rows)]

ReadSheetFailure(st) ==
    [asins |-> <<>>,
     errors |-> Append(st.errors, ErrorEntry("googleSheets", NoAsin, "sheet error"))]

\* response.data.values: no rows at all, or a first row (skipped as the header)
\* followed by at most maxRows data rows
ReadSheetOk(maxRows) ==
    /\ pc = "readSheet"
    /\ \E rows \in SeqsUpTo(RowValues, maxRows + 1) :
         state' = MergeState(state, ReadSheetResult(state, rows))
    /\ pc' = NodeAfter("readSheet")
    /\ executed' = Append(executed, "readSheet")
    /\ UNCHANGED <<loc, trace>>

ReadSheetError ==
    /\ pc = "readSheet"
    /\ state' = MergeState(state, ReadSheetFailure(state))
    /\ pc' = NodeAfter("readSheet")
    /\ executed' = Append(executed, "readSheet")
    /\ UNCHANGED <<loc, trace>>

----------------------------------------------------------------------------
(* readAsinsFromSheet on its own: the sheet is fixed first, then read *)

SheetMaxRows == 3   \* data rows of the sheet when the reader is run on its own

\* column A cells: two identifiers, one of them also in lower case and one in
\* mixed case, an empty cell, and strings that start with another letter, start
\* with a digit, have eleven characters, or hold a character that is no letter
\* or digit
SheetCells ==
    { Asin("1"), Asin("2"), LowerAsin("1"), <<>>,
      <<"b", "0", "0", "0", "0", "0", "0", "0", "z", "a">>,
      <<"A", "0", "0", "0", "0", "0", "0", "0", "0", "1">>,
      <<"0", "0", "0", "0", "0", "0", "0", "0", "0", "1">>,
      <<"B", "0", "0", "0", "0", "0", "0", "0", "0", "0", "1">>,
      <<"B", "0", "0", "0", "0", "0", "0", "0", "0", "-">> }

InitSheet ==
    /\ pc = "sheet"
    /\ state = initialState
    /\ loc \in [stage : {"sheet"}, rows : SeqsUpTo(SheetCells, SheetMaxRows + 1)]
    /\ trace = <<>>
    /\ executed = <<>>

\* the call readAsinsFromSheet(state, ...) with response.data.values = loc.rows
ReadSheetRows ==
    /\ pc = "sheet"
    /\ state' = MergeState(state, ReadSheetResult(state, loc.rows))
    /\ pc' = "sheet.done"
    /\ UNCHANGED <<loc, trace, executed>>

NextSheet == ReadSheetRows

SpecSheet == InitSheet /\ [][NextSheet]_vars

----------------------------------------------------------------------------
(* The scraping service and the parser, as far as the pipeline sees them *)

\* what fetch() to the scraping API can produce: a rejected promise, a non-OK
\* HTTP response, or an OK response whose body has each view missing or
\* present (the html view possibly present but not a string)
Responses ==
    {[status |-> "reject", markdown |-> "missing", html |-> "missing"],
     [status |-> "nonOK", markdown |-> "missing", html |-> "missing"]}
    \cup [status : {"ok"}, markdown : {"missing", "text"},
          html : {"missing", "text", "nonText"}]

Null == [isNull |-> TRUE]

\* a scraper that forgets the check for missing views
scrapeAmazonListingNoViewCheck(asin, resp) ==
    IF resp.status = "reject" THEN Null
    ELSE IF resp.status # "ok" THEN Null
    ELSE [isNull |-> FALSE, asin |-> asin, markdown |-> resp.markdown, html |-> resp.html]

scrapeAmazonListing(asin, resp) ==
    IF resp.status = "reject" THEN Null
    ELSE IF resp.status # "ok" THEN Null
    ELSE IF resp.markdown = "missing" \/ resp.html = "missing" THEN Null
    ELSE [isNull |-> FALSE, asin |-> asin, markdown |-> resp.markdown, html |-> resp.html]

\* number of distinct gallery images on the product page of an identifier
ImageCountOf(asin) ==
    CASE asin[10] = "1" -> 1
      [] asin[10] = "2" -> 8
      [] asin[10] = "3" -> 0
      [] OTHER -> 2

ImageRef(asin, p) ==
    [url |-> <<asin[10], p>>, type |-> IF p = 1 THEN "main" ELSE "secondary",
     position |-> p]

\* the function-level try/catch of the parser: a view that is not a string
\* makes html.match throw, which is returned as a typed failure
parseAmazonListing(markdown, html, asin) ==
    IF html # "text" \/ markdown # "text"
    THEN [success |-> FALSE, error |-> "html.match is not a function"]
    ELSE [success |-> TRUE,
          data |-> [asin |-> asin,
                    images |-> [p \in 1..ImageCountOf(asin) |-> ImageRef(asin, p)]]]

ParserInvoked(asin, resp) == ~scrapeAmazonListing(asin, resp).isNull

scrapeAndParseAmazon(asin, resp) ==
    LET scraped == scrapeAmazonListing(asin, resp)
    IN IF scraped.isNull
       THEN [success |-> FALSE, error |-> "Failed to scrape Amazon listing"]
       ELSE parseAmazonListing(scraped.markdown, scraped.html, asin)

----------------------------------------------------------------------------
(* Node scrape: scrapeListings, one loop iteration per step *)

ScrapeLocals(st) ==
    [stage |-> "scrape", i |-> 1,
     scrapedListings |-> st.scrapedListings, errors |-> st.errors]

\* a result branch that drops failure results without logging them
ScrapeRecordSilent(l, asin, result) ==
    IF result.success /\ "data" \in DOMAIN result
    THEN [l EXCEPT !.scrapedListings = MapSet(@, asin, result.data)]
    ELSE l

\* lines 25-35: the branch on the result of scrapeAndParseAmazon
ScrapeRecord(l, asin, result) ==
    IF result.success /\ "data" \in DOMAIN result
    THEN [l EXCEPT !.scrapedListings = MapSet(@, asin, result.data)]
    ELSE [l EXCEPT !.errors = Append(@, ErrorEntry("firecrawl", asin, result.error))]

\* a catch block that also leaves the loop
ScrapeCatchBreaks(l, asin) ==
    [l EXCEPT !.errors = Append(@, ErrorEntry("firecrawl", asin, "thrown")),
              !.i = Len(state.asins)]

\* lines 42-48: the catch block
ScrapeCatch(l, asin) ==
    [l EXCEPT !.errors = Append(@, ErrorEntry("firecrawl", asin, "thrown"))]

\* line 38, with i counted from 1
ScrapeDelayDue(i, n) == i < n

\* the loop header's i++
ScrapeAdvance(l) == [l EXCEPT !.i = @ + 1]

ScrapeBegin ==
    /\ pc = "scrape"
    /\ loc' = ScrapeLocals(state)
    /\ trace' = <<>>
    /\ pc' = "scrape.loop"
    /\ UNCHANGED <<state, executed>>

\* one iteration in which scrapeAndParseAmazon resolves
ScrapeIteration ==
    /\ pc = "scrape.loop"
    /\ loc.i <= Len(state.asins)
    /\ \E resp \in Responses :
         LET asin == state.asins[loc.i]
             result == scrapeAndParseAmazon(asin, resp)
             called == <<Event("request", asin, resp, 0, 0)>>
                       \o (IF ParserInvoked(asin, resp)
                           THEN <<Event("parse", asin, NoResp, 0, 0)>> ELSE <<>>)
             waited == IF ScrapeDelayDue(loc.i, Len(state.asins))
                       THEN <<Event("delay", NoAsin, NoResp, 0, ScrapeDelayMs)>>
                       ELSE <<>>
         IN /\ loc' = ScrapeAdvance(ScrapeRecord(loc, asin, result))
            /\ trace' = trace \o called \o waited
    /\ UNCHANGED <<pc, state, executed>>

\* one iteration in which the awaited scrapeAndParseAmazon rejects
ScrapeThrow ==
    /\ pc = "scrape.loop"
    /\ loc.i <= Len(state.asins)
    /\ LET asin == state.asins[loc.i]
       IN /\ loc' = ScrapeAdvance(ScrapeCatch(loc, asin))
          /\ trace' = Append(trace, Event("request", asin, Rejected, 0, 0))
    /\ UNCHANGED <<pc, state, executed>>

ScrapeReturnValue(l) == [scrapedListings |-> l.scrapedListings, errors |-> l.errors]

ScrapeReturn ==
    /\ pc = "scrape.loop"
    /\ loc.i > Len(state.asins)
    /\ state' = MergeState(state, ScrapeReturnValue(loc))
    /\ pc' = NodeAfter("scrape")
    /\ executed' = Append(executed, "scrape")
    /\ UNCHANGED <<loc, trace>>

----------------------------------------------------------------------------
(* Node analyzeImages: one image, or the end of one listing, per step *)

\* what happens to one image: its bytes are fetched and the four Rekognition
\* calls succeed, or the fetch fails, or one of the Rekognition calls rejects
ImageOutcomes == {"ok", "fetchFailed", "rekognitionFailed"}

ImageResp(outcome) == [status |-> outcome, markdown |-> "missing", html |-> "missing"]

AnalyzeLocals(st) ==
    [stage |-> "analyzeImages", li |-> 1, ii |-> 1, images |-> <<>>,
     imageAnalysis |-> st.imageAnalysis, errors |-> st.errors]

\* a selection that forgets the cap
ImagesToAnalyzeAll(listing) == listing.images

\* line 145: listing.images.slice(0, 5)
ImagesToAnalyze(listing) == Slice0(listing.images, ImagesPerListing)

\* lines 181-198: analysis.images.push(...)
AnalyzePush(l, image) == [l EXCEPT !.images = Append(@, [url |-> image.url])]

\* line 210: the fixed part of the message; the text of the thrown error that
\* follows it is not kept
ImageFailedMessage == "Image analysis failed"

\* a catch block that also throws away what the listing has collected
AnalyzeCatchClears(l, asin, outcome) ==
    [l EXCEPT !.errors = Append(@, ErrorEntry("rekognition", asin, ImageFailedMessage)),
              !.images = <<>>]

\* a catch block that keeps a result for the image whose analysis failed
AnalyzeCatchKeepsPartial(l, asin, outcome) ==
    [l EXCEPT !.errors = Append(@, ErrorEntry("rekognition", asin, ImageFailedMessage)),
              !.images = Append(@, [url |-> <<"partial">>])]

\* lines 205-212: the catch block
AnalyzeCatch(l, asin, outcome) ==
    [l EXCEPT !.errors = Append(@, ErrorEntry("rekognition", asin, ImageFailedMessage))]

\* a delay that is skipped after the last selected image
ImageDelayBetweenOnly(l, selected) ==
    IF l.ii < Len(selected)
    THEN <<Event("delay", NoAsin, NoResp, 0, ImageDelayMs)>> ELSE <<>>

\* lines 202-203: the delay at the end of the try block
ImageDelay(l, selected) == <<Event("delay", NoAsin, NoResp, 0, ImageDelayMs)>>

AnalyzeBegin ==
    /\ pc = "analyzeImages"
    /\ loc' = AnalyzeLocals(state)
    /\ trace' = <<>>
    /\ pc' = "analyzeImages.loop"
    /\ UNCHANGED <<state, executed>>

CurrentListing == state.scrapedListings[loc.li]

InImageLoop ==
    /\ pc = "analyzeImages.loop"
    /\ loc.li <= MapSize(state.scrapedListings)
    /\ loc.ii <= Len(ImagesToAnalyze(CurrentListing.val))

\* one iteration of the inner loop whose try block runs to its end
AnalyzeImageOk ==
    /\ InImageLoop
    /\ LET selected == ImagesToAnalyze(CurrentListing.val)
           image == selected[loc.ii]
       IN /\ loc' = [AnalyzePush(loc, image) EXCEPT !.ii = @ + 1]
          /\ trace' = Append(trace, Event("image", CurrentListing.key, ImageResp("ok"),
                                          image.position, 0))
                      \o ImageDelay(loc, selected)
    /\ UNCHANGED <<pc, state, executed>>

\* a catch block that pushes onto the error log of the state it was given
AnalyzeImageFailInPlace ==
    /\ InImageLoop
    /\ \E outcome \in ImageOutcomes \ {"ok"} :
         LET selected == ImagesToAnalyze(CurrentListing.val)
             image == selected[loc.ii]
         IN /\ loc' = [AnalyzeCatch(loc, CurrentListing.key, outcome) EXCEPT !.ii = @ + 1]
            /\ state' = [state EXCEPT !.errors =
                            Append(@, ErrorEntry("rekognition", CurrentListing.key, ImageFailedMessage))]
            /\ trace' = Append(trace, Event("image", CurrentListing.key,
                                            ImageResp(outcome), image.position, 0))
    /\ UNCHANGED <<pc, executed>>

\* one iteration of the inner loop whose try block throws
AnalyzeImageFail ==
    /\ InImageLoop
    /\ \E outcome \in ImageOutcomes \ {"ok"} :
         LET selected == ImagesToAnalyze(CurrentListing.val)
             image == selected[loc.ii]
         IN /\ loc' = [AnalyzeCatch(loc, CurrentListing.key, outcome) EXCEPT !.ii = @ + 1]
            /\ trace' = Append(trace, Event("image", CurrentListing.key,
                                            ImageResp(outcome), image.position, 0))
    /\ UNCHANGED <<pc, state, executed>>

\* a listing whose record is stored only when it collected a result
AnalyzeListingDoneSkipsEmpty ==
    /\ pc = "analyzeImages.loop"
    /\ loc.li <= MapSize(state.scrapedListings)
    /\ loc.ii > Len(ImagesToAnalyze(CurrentListing.val))
    /\ loc' = [loc EXCEPT
                 !.imageAnalysis =
                     IF loc.images = <<>> THEN @
                     ELSE MapSet(@, CurrentListing.key,
                                 [asin |-> CurrentListing.key, images |-> loc.images]),
                 !.li = @ + 1, !.ii = 1, !.images = <<>>]
    /\ UNCHANGED <<pc, state, trace, executed>>

\* line 215: imageAnalysis.set(asin, analysis), then the next listing
AnalyzeListingDone ==
    /\ pc = "analyzeImages.loop"
    /\ loc.li <= MapSize(state.scrapedListings)
    /\ loc.ii > Len(ImagesToAnalyze(CurrentListing.val))
    /\ loc' = [loc EXCEPT
                 !.imageAnalysis = MapSet(@, CurrentListing.key,
                                          [asin |-> CurrentListing.key, images |-> loc.images]),
                 !.li = @ + 1, !.ii = 1, !.images = <<>>]
    /\ UNCHANGED <<pc, state, trace, executed>>

AnalyzeReturnValue(l) == [imageAnalysis |-> l.imageAnalysis, errors |-> l.errors]

AnalyzeReturn ==
    /\ pc = "analyzeImages.loop"
    /\ loc.li > MapSize(state.scrapedListings)
    /\ state' = MergeState(state, AnalyzeReturnValue(loc))
    /\ pc' = NodeAfter("analyzeImages")
    /\ executed' = Append(executed, "analyzeImages")
    /\ UNCHANGED <<loc, trace>>

----------------------------------------------------------------------------
(* Node analyzeWithGPT *)

\* lines 139-153: the report built from the response text
GptSuccess(st) == [gptAnalysis |-> [summary |-> "summary", generatedAt |-> "now"]]

\* a catch block that starts a fresh error list
GptFailureFreshLog(st) == [errors |-> <<ErrorEntry("chatgpt", NoAsin, "llm error")>>]

\* lines 155-166: the catch block
GptFailure(st) == [errors |-> Append(st.errors, ErrorEntry("chatgpt", NoAsin, "llm error"))]

\* a stage that calls the model again after a failure
GptCallsRetrying(ok) ==
    IF ok THEN <<Event("invoke", NoAsin, ImageResp("ok"), 0, 0)>>
    ELSE <<Event("invoke", NoAsin, ImageResp("failed"), 0, 0),
           Event("invoke", NoAsin, ImageResp("failed"), 0, 0)>>

\* line 125: the single llm.invoke(prompt)
GptCalls(ok) ==
    <<Event("invoke", NoAsin, ImageResp(IF ok THEN "ok" ELSE "failed"), 0, 0)>>

AnalyzeWithGPTOk ==
    /\ pc = "analyzeWithGPT"
    /\ state' = MergeState(state, GptSuccess(state))
    /\ trace' = GptCalls(TRUE)
    /\ pc' = NodeAfter("analyzeWithGPT")
    /\ executed' = Append(executed, "analyzeWithGPT")
    /\ UNCHANGED loc

AnalyzeWithGPTFail ==
    /\ pc = "analyzeWithGPT"
    /\ state' = MergeState(state, GptFailure(state))
    /\ trace' = GptCalls(FALSE)
    /\ pc' = NodeAfter("analyzeWithGPT")
    /\ executed' = Append(executed, "analyzeWithGPT")
    /\ UNCHANGED loc

----------------------------------------------------------------------------
(* Nodes sendEmail and saveToDrive (nodes/output) *)

EmailResult(st, outcome) ==
    CASE outcome = "sent" -> [emailSent |-> TRUE]
      [] outcome = "skipped" -> [emailSent |-> FALSE]
      [] outcome = "failed" ->
           [emailSent |-> FALSE,
            errors |-> Append(st.errors, ErrorEntry("email", NoAsin, "smtp error"))]

DriveResult(st, outcome) ==
    CASE outcome = "saved" -> [driveSaved |-> TRUE]
      [] outcome = "skipped" -> [driveSaved |-> FALSE]
      [] outcome = "failed" ->
           [driveSaved |-> FALSE,
            errors |-> Append(st.errors, ErrorEntry("googleDrive", NoAsin, "drive error"))]

SendEmail ==
    /\ pc = "sendEmail"
    /\ \E outcome \in {"sent", "skipped", "failed"} :
         state' = MergeState(state, EmailResult(state, outcome))
    /\ trace' = <<>>
    /\ pc' = NodeAfter("sendEmail")
    /\ executed' = Append(executed, "sendEmail")
    /\ UNCHANGED loc

SaveToDrive ==
    /\ pc = "saveToDrive"
    /\ \E outcome \in {"saved", "skipped", "failed"} :
         state' = MergeState(state, DriveResult(state, outcome))
    /\ trace' = <<>>
    /\ pc' = NodeAfter("saveToDrive")
    /\ executed' = Append(executed, "saveToDrive")
    /\ UNCHANGED loc

----------------------------------------------------------------------------
Init ==
    /\ pc = "readSheet"
    /\ state = initialState
    /\ loc = NoLoc
    /\ trace = <<>>
    /\ executed = <<>>

NextScrape ==
    \/ ReadSheetOk(MaxRows)
    \/ ReadSheetError
    \/ ScrapeBegin
    \/ ScrapeIteration
    \/ ScrapeThrow
    \/ ScrapeReturn

SpecScrape == Init /\ [][NextScrape]_vars

\* the whole graph, edge by edge
Next ==
    \/ ReadSheetOk(WfMaxRows)
    \/ ReadSheetError
    \/ ScrapeBegin
    \/ ScrapeIteration
    \/ ScrapeThrow
    \/ ScrapeReturn
    \/ AnalyzeBegin
    \/ AnalyzeImageOk
    \/ AnalyzeImageFail
    \/ AnalyzeListingDone
    \/ AnalyzeReturn
    \/ AnalyzeWithGPTOk
    \/ AnalyzeWithGPTFail
    \/ SendEmail
    \/ SaveToDrive

Spec == Init /\ [][Next]_vars

\* the graph is driven to its end by one invoke() call
FairSpec == Spec /\ WF_vars(Next)

\* the stage is one async function run to completion by the event loop
FairSpecScrape == SpecScrape /\ WF_vars(NextScrape)

----------------------------------------------------------------------------
(* The core-workflow driver (test-workflow.ts): scrape, analyzeImages and
   analyzeWithGPT called one after the other on one state object *)

\* lines 19, 44-49: the state built for the one test listing; the last
\* character of the identifier stands for the number of images on its page
InitDriver ==
    /\ pc = "driver.scrape"
    /\ \E d \in {"1", "2", "3"} : state = [initialState EXCEPT !.asins = <<Asin(d)>>]
    /\ loc = [stage |-> "driver", i |-> 1]
    /\ trace = <<>>
    /\ executed = <<>>

\* lines 57-76: one iteration of the scraping loop, which writes into the
\* state object itself
DriverScrape ==
    /\ pc = "driver.scrape"
    /\ loc.i <= Len(state.asins)
    /\ \E resp \in Responses :
         LET asin == state.asins[loc.i]
             result == scrapeAndParseAmazon(asin, resp)
         IN /\ state' = IF result.success /\ "data" \in DOMAIN result
                       THEN [state EXCEPT !.scrapedListings = MapSet(@, asin, result.data)]
                       ELSE [state EXCEPT !.errors =
                                 Append(@, ErrorEntry("firecrawl", asin, result.error))]
            /\ trace' = Append(trace, Event("request", asin, resp, 0, 0))
    /\ loc' = [loc EXCEPT !.i = @ + 1]
    /\ UNCHANGED <<pc, executed>>

\* lines 78-81: the driver stops when nothing was scraped, else calls
\* analyzeImages with the state object
DriverScrapeEnd ==
    /\ pc = "driver.scrape"
    /\ loc.i > Len(state.asins)
    /\ pc' = IF MapSize(state.scrapedListings) = 0 THEN "driver.stopped" ELSE "analyzeImages"
    /\ UNCHANGED <<state, loc, trace, executed>>

\* lines 96-101 and 113-118: the channel of the result replaces the state's,
\* and the returned error list is pushed onto the state's error list
DriverMerge(st, result, channel) ==
    LET assigned == IF channel \in DOMAIN result
                    THEN [k \in DOMAIN st \cup {channel} |->
                            IF k = channel THEN result[channel] ELSE st[k]]
                    ELSE st
    IN IF "errors" \in DOMAIN result
       THEN [assigned EXCEPT !.errors = @ \o result.errors]
       ELSE assigned

\* lines 88-101: analyzeImages has returned and its result is merged
DriverAnalyzeImages ==
    /\ pc = "analyzeImages.loop"
    /\ loc.li > MapSize(state.scrapedListings)
    /\ state' = DriverMerge(state, AnalyzeReturnValue(loc), "imageAnalysis")
    /\ pc' = "driver.gpt"
    /\ UNCHANGED <<loc, trace, executed>>

\* lines 111-118: analyzeWithGPT is called and its result is merged
DriverAnalyzeWithGPT ==
    /\ pc = "driver.gpt"
    /\ \E ok \in BOOLEAN :
         /\ state' = DriverMerge(state, IF ok THEN GptSuccess(state) ELSE GptFailure(state),
                                 "gptAnalysis")
         /\ trace' = trace \o GptCalls(ok)
    /\ pc' = "driver.done"
    /\ UNCHANGED <<loc, executed>>

NextDriver ==
    \/ DriverScrape
    \/ DriverScrapeEnd
    \/ AnalyzeBegin
    \/ AnalyzeImageOk
    \/ AnalyzeImageFail
    \/ AnalyzeListingDone
    \/ DriverAnalyzeImages
    \/ DriverAnalyzeWithGPT

SpecDriver == InitDriver /\ [][NextDriver]_vars

----------------------------------------------------------------------------
(* Properties of scrapeListings *)

RECURSIVE EventsOf(_, _)
EventsOf(tr, ev) ==
    IF tr = <<>> THEN <<>>
    ELSE (IF tr[1].ev = ev THEN <<tr[1]>> ELSE <<>>) \o EventsOf(Tail(tr), ev)

RequestedAsins == LET rs == EventsOf(trace, "request") IN [i \in 1..Len(rs) |-> rs[i].asin]

\* the loop has run out and the stage is about to return
ScrapeDone == pc = "scrape.loop" /\ loc.i > Len(state.asins)

ScrapeReturned == pc = "analyzeImages" /\ executed = <<"readSheet", "scrape">>

ScrapeAttemptsInOrder ==
    /\ pc = "scrape.loop" => RequestedAsins = SubSeq(state.asins, 1, loc.i - 1)
    /\ ScrapeReturned => RequestedAsins = state.asins

\* C1: scrapeListings requests the identifiers one at a time in list order,
\* each exactly once, whatever failure results or thrown exceptions occur, and
\* the stage returns after the last identifier has been processed.
C1_EveryIdentifierAttempted == []ScrapeAttemptsInOrder /\ <>ScrapeReturned

\* a batch of three whose first call threw and whose second returned a failure
\* has still requested the third and returned
C1_Witness ==
    /\ ScrapeReturned
    /\ Len(state.asins) = 3
    /\ Len(trace) >= 3
    /\ trace[1].resp.status = "thrown"
    /\ trace[2].resp.status = "nonOK"
    /\ trace[Len(trace)].asin = state.asins[3]

NewScrapeErrors == SubSeq(loc.errors, Len(state.errors) + 1, Len(loc.errors))

ErrorsFor(errs, asin) == {i \in 1..Len(errs) : errs[i].asin = asin}

\* C2: from an empty listing map and distinct identifiers, each identifier ends
\* either as an entry of the returned listing map or as exactly one new error
\* entry of the scraping step carrying that identifier, never both; so the map
\* size plus the number of new error entries is the number of identifiers.
C2_MapOrExactlyOneError ==
    ScrapeDone =>
        /\ IsPrefix(state.errors, loc.errors)
        /\ \A k \in 1..Len(state.asins) :
             LET a == state.asins[k]
             IN \/ MapHas(loc.scrapedListings, a) /\ ErrorsFor(NewScrapeErrors, a) = {}
                \/ /\ ~MapHas(loc.scrapedListings, a)
                   /\ Cardinality(ErrorsFor(NewScrapeErrors, a)) = 1
        /\ \A j \in 1..Len(NewScrapeErrors) : NewScrapeErrors[j].step = "firecrawl"
        /\ MapSize(loc.scrapedListings) + Len(NewScrapeErrors) = Len(state.asins)

\* three identifiers, the second fetch failed: two map entries, one error entry
C2_Witness ==
    /\ ScrapeDone
    /\ Len(state.asins) = 3
    /\ MapKeys(loc.scrapedListings) = <<state.asins[1], state.asins[3]>>
    /\ Len(NewScrapeErrors) = 1
    /\ NewScrapeErrors[1].asin = state.asins[2]
    /\ NewScrapeErrors[1].step = "firecrawl"

DelayCount == Len(EventsOf(trace, "delay"))

\* C3: over n identifiers exactly n-1 delays of 2000 ms are taken, one
\* immediately before each request after the first (also when the earlier
\* identifier failed), none before the first request and none after the last.
C3_DelayBetweenEveryTwo ==
    ScrapeDone /\ Len(state.asins) > 0 =>
        /\ DelayCount = Len(state.asins) - 1
        /\ trace[1].ev = "request"
        /\ trace[Len(trace)].ev # "delay"
        /\ \A i \in 2..Len(trace) :
             trace[i].ev = "request" => trace[i - 1].ev = "delay" /\ trace[i - 1].ms = ScrapeDelayMs

FetchFailed(resp) ==
    \/ resp.status \in {"reject", "nonOK"}
    \/ resp.status = "ok" /\ (resp.markdown = "missing" \/ resp.html = "missing")

\* C10: a non-OK response, a network error or a response lacking the markdown
\* or the HTML view is a fetch failure: the parser is not invoked for that
\* identifier, the failure is logged with the scrape-failure message and the
\* identifier is absent from the listing map.
C10_FetchFailureSkipsParser ==
    pc = "scrape.loop" =>
        \A i \in 1..Len(trace) :
            trace[i].ev = "request" /\ FetchFailed(trace[i].resp) =>
                /\ \A j \in 1..Len(trace) :
                     ~(trace[j].ev = "parse" /\ trace[j].asin = trace[i].asin)
                /\ ~MapHas(loc.scrapedListings, trace[i].asin)
                /\ \E e \in 1..Len(loc.errors) :
                     /\ loc.errors[e].asin = trace[i].asin
                     /\ loc.errors[e].message = "Failed to scrape Amazon listing"

\* all four kinds of fetch failure have occurred in one batch next to a success
C10_Witness ==
    /\ ScrapeDone
    /\ Len(state.asins) = 3
    /\ trace[1].ev = "request" /\ trace[1].resp.status = "ok"
    /\ trace[1].resp.markdown = "text" /\ trace[1].resp.html = "missing"
    /\ \E i \in 1..Len(trace) : trace[i].ev = "request" /\ trace[i].resp.status = "nonOK"
    /\ \E i \in 1..Len(trace) : trace[i].ev = "parse"
    /\ MapSize(loc.scrapedListings) = 1

----------------------------------------------------------------------------
(* Properties of analyzeImages *)

AnalyzeDone == pc = "analyzeImages.loop" /\ loc.li > MapSize(state.scrapedListings)

IsOkImage(e) == e.ev = "image" /\ e.resp.status = "ok"

IsFailedImage(e) == e.ev = "image" /\ e.resp.status # "ok"

RECURSIVE PositionsFor(_, _)
\* the positions of the images of one listing that were requested, in order
PositionsFor(tr, asin) ==
    IF tr = <<>> THEN <<>>
    ELSE (IF tr[1].ev = "image" /\ tr[1].asin = asin THEN <<tr[1].pos>> ELSE <<>>)
         \o PositionsFor(Tail(tr), asin)

Min(a, b) == IF a < b THEN a ELSE b

\* C5: for each listing exactly the first min(5, n) of its n images are
\* requested, in position order and whatever their role, none beyond the
\* fifth; when none of them fails the listing's record holds exactly those
\* images in that order.
C5_FirstFiveInOrder ==
    /\ pc = "analyzeImages.loop" =>
          \A i \in 1..Len(trace) : trace[i].ev = "image" => trace[i].pos <= 5
    /\ AnalyzeDone =>
          \A k \in 1..MapSize(state.scrapedListings) :
             LET asin == state.scrapedListings[k].key
                 imgs == state.scrapedListings[k].val.images
                 m == Min(5, Len(imgs))
                 rec == MapGet(loc.imageAnalysis, asin)
             IN /\ PositionsFor(trace, asin) = [p \in 1..m |-> imgs[p].position]
                /\ Len(rec.images) <= m
                /\ ErrorsFor(loc.errors, asin) = {} =>
                     rec.images = [p \in 1..m |-> [url |-> imgs[p].url]]

\* a listing with 8 images and no failure has exactly 5 results
C5_Witness ==
    /\ AnalyzeDone
    /\ \E k \in 1..MapSize(state.scrapedListings) :
         /\ Len(state.scrapedListings[k].val.images) = 8
         /\ Len(MapGet(loc.imageAnalysis, state.scrapedListings[k].key).images) = 5

\* the step in which the processing of one image fails
ImageFailStep ==
    /\ pc = "analyzeImages.loop"
    /\ Len(trace') = Len(trace) + 1
    /\ IsFailedImage(trace'[Len(trace')])

AllSelectedAttempted ==
    AnalyzeDone =>
        \A k \in 1..MapSize(state.scrapedListings) :
            Len(PositionsFor(trace, state.scrapedListings[k].key))
              = Min(5, Len(state.scrapedListings[k].val.images))

\* C6: a failure on one image appends exactly one error entry of the image
\* analysis step carrying the listing's identifier, leaves the results already
\* collected (for this listing and for earlier ones) in place, and every other
\* selected image of this and of later listings is still processed.
C6_ImageFailureIsLocal ==
    /\ [][ImageFailStep =>
            /\ Len(loc'.errors) = Len(loc.errors) + 1
            /\ IsPrefix(loc.errors, loc'.errors)
            /\ loc'.errors[Len(loc'.errors)].step = "rekognition"
            /\ loc'.errors[Len(loc'.errors)].asin = state.scrapedListings[loc.li].key
            /\ loc'.images = loc.images
            /\ loc'.imageAnalysis = loc.imageAnalysis]_vars
    /\ []AllSelectedAttempted

\* the first listing lost an image after collecting one, and the second
\* listing was analysed all the same
C6_Witness ==
    /\ AnalyzeDone
    /\ MapSize(state.scrapedListings) = 2
    /\ Len(state.scrapedListings[1].val.images) = 8
    /\ Len(trace) >= 3
    /\ IsOkImage(trace[1]) /\ IsFailedImage(trace[3])
    /\ Len(loc.imageAnalysis[1].val.images) = 4
    /\ Len(loc.imageAnalysis[2].val.images) = 1

----------------------------------------------------------------------------
(* Properties of the graph *)

\* C7: the nodes run strictly one after the other, each exactly once, in the
\* order readSheet, scrape, analyzeImages, analyzeWithGPT, sendEmail,
\* saveToDrive, and every run reaches the end of the graph whatever failures
\* the stages record.
C7_StagesInOrderToTheEnd ==
    /\ [](IsPrefix(executed, NodeOrder))
    /\ [](pc = "END" => executed = NodeOrder)
    /\ <>(pc = "END")

StepsLogged == {state.errors[i].step : i \in 1..Len(state.errors)}

\* a run that ended after fetch, image, report and delivery failures
C7_Witness ==
    /\ pc = "END"
    /\ executed = NodeOrder
    /\ {"firecrawl", "rekognition", "chatgpt", "email", "googleDrive"} \subseteq StepsLogged

\* C8: the error log of the run only grows: across every step of the run the
\* previous log is a prefix of the new one, also when the stage's update has
\* no errors field.
C8_ErrorLogAppendOnly == [][IsPrefix(state.errors, state'.errors)]_vars

\* a log that survived a stage without an errors field and then grew
C8_Witness ==
    /\ pc = "END"
    /\ "gptAnalysis" \in DOMAIN state
    /\ Len(state.errors) >= 3
    /\ state.errors[1].step = "firecrawl"
    /\ state.errors[Len(state.errors)].step = "googleDrive"

\* the step in which analyzeWithGPT returns after its model call failed
GptFailStep ==
    /\ pc = "analyzeWithGPT"
    /\ pc' # pc
    /\ \E i \in 1..Len(trace') : trace'[i].resp.status = "failed"

\* C9: when the model call fails the stage yields no report and an error log
\* equal to the incoming log followed by exactly one entry of the report step
\* without identifier; the model is called exactly once in the stage.
C9_ReportFailureLoggedOnce ==
    [][GptFailStep =>
        /\ "gptAnalysis" \notin DOMAIN state'
        /\ Len(state'.errors) = Len(state.errors) + 1
        /\ IsPrefix(state.errors, state'.errors)
        /\ state'.errors[Len(state'.errors)].step = "chatgpt"
        /\ state'.errors[Len(state'.errors)].asin = NoAsin
        /\ Len(EventsOf(trace', "invoke")) = 1]_vars

\* the report stage failed after earlier stages had logged errors
C9_Witness ==
    /\ pc = "sendEmail"
    /\ "gptAnalysis" \notin DOMAIN state
    /\ Len(state.errors) >= 2
    /\ state.errors[Len(state.errors)].step = "chatgpt"
    /\ Len(EventsOf(trace, "invoke")) = 1

----------------------------------------------------------------------------
(* The report text and its parsing: extractSection and extractListItems.     *)
(* A text is a sequence of lines (the text split at "\n"); a line is a       *)
(* sequence of runs of characters of one class: " " white space, "-", "*",   *)
(* "d" digits, ".", ")", "#", and "t" any other text.  Run r stands for r.n  *)
(* characters; r.id tells the runs of other text apart.                      *)

ReportMaxLines == 4     \* lines of the generated text

Run(c, n, id) == [c |-> c, n |-> n, id |-> id]

Heading(level, name, n) == <<Run("#", level, "#"), Run(" ", 1, " "), Run("t", n, name)>>

\* a list line: indentation, marker, one space, content of n characters
ListLine(indent, marker, n, id) ==
    (IF indent > 0 THEN <<Run(" ", indent, " ")>> ELSE <<>>)
    \o marker \o <<Run(" ", 1, " "), Run("t", n, id)>>

Marker(c) == <<Run(c, 1, c)>>
Numbered(digits, delimiter) == <<Run("d", digits, "d"), Run(delimiter, 1, delimiter)>>

\* the lines the language model's answer is made of in the exploration
ReportLines ==
    { Heading(2, "Recommendations", 15), Heading(2, "Summary", 7),
      Heading(3, "Immediate", 9),
      ListLine(0, Marker("-"), 11, "a"), ListLine(0, Marker("*"), 20, "b"),
      ListLine(0, Numbered(1, "."), 11, "c"), ListLine(2, Marker("-"), 12, "d"),
      ListLine(0, Marker("-"), 10, "e"),
      <<>>,
      <<Run("t", 30, "p")>> }

RECURSIVE LineLength(_)
\* String.prototype.length of a line
LineLength(line) ==
    IF line = <<>> THEN 0 ELSE Head(line).n + LineLength(Tail(line))

RECURSIVE TrimStart(_)
TrimStart(line) ==
    IF line # <<>> /\ Head(line).c = " " THEN TrimStart(Tail(line)) ELSE line

RECURSIVE TrimEnd(_)
TrimEnd(line) ==
    IF line # <<>> /\ line[Len(line)].c = " "
    THEN TrimEnd(SubSeq(line, 1, Len(line) - 1))
    ELSE line

\* String.prototype.trim on one line
Trim(line) == TrimEnd(TrimStart(line))

IsBlank(line) == Trim(line) = <<>>

\* [-*\d.]
ListMarkerChars == {"-", "*", "d", "."}

\* line.trim().match(/^[-*\d.]/)
LooksLikeListItem(line) ==
    LET l == Trim(line) IN l # <<>> /\ Head(l).c \in ListMarkerChars

\* line.replace(/^[-*\d.]\s*/, ''): one marker character at the very start of
\* the line, and the white space that follows it directly
StripMarker(line) ==
    IF line = <<>> \/ Head(line).c \notin ListMarkerChars THEN line
    ELSE IF Head(line).n > 1
         THEN <<[Head(line) EXCEPT !.n = @ - 1]>> \o Tail(line)
         ELSE TrimStart(Tail(line))

\* the line ends in "##", white space, the section name, white space
IsHeadingOf(line, sectionName) ==
    \E j \in 1..Len(line) :
        /\ line[j].c = "#"
        /\ line[j].n >= 2
        /\ LET rest == Trim(SubSeq(line, j + 1, Len(line)))
           IN Len(rest) = 1 /\ rest[1].c = "t" /\ rest[1].id = sectionName

\* "\n##": a line that starts with two number signs
StartsHeading(line) == line # <<>> /\ Head(line).c = "#" /\ Head(line).n >= 2

LeastOf(S) == CHOOSE i \in S : \A j \in S : i <= j

RECURSIVE DropBlankTail(_)
DropBlankTail(lines) ==
    IF lines # <<>> /\ IsBlank(lines[Len(lines)])
    THEN DropBlankTail(SubSeq(lines, 1, Len(lines) - 1))
    ELSE lines

\* String.prototype.trim on a text of several lines
TrimLines(lines) ==
    LET kept == DropBlankTail(lines)
    IN [i \in 1..Len(kept) |->
          LET a == IF i = 1 THEN TrimStart(kept[i]) ELSE kept[i]
          IN IF i = Len(kept) THEN TrimEnd(a) ELSE a]

\* text.match(/##\s*<name>\s*\n([\s\S]*?)(?=\n##|$)/i): the first heading of
\* that name that is followed by a line break; the white space after it is
\* skipped up to the start of the first line that is not blank; the capture
\* runs from there to the next line break that is followed by "##", or to the
\* end of the text; the result is trimmed.  '' is the empty sequence of lines.
extractSection(text, sectionName) ==
    LET heads == {h \in 1..(Len(text) - 1) : IsHeadingOf(text[h], sectionName)}
    IN IF heads = {} THEN <<>>
       ELSE LET h == LeastOf(heads)
                body == {k \in (h + 1)..Len(text) : ~IsBlank(text[k])}
            IN IF body = {} THEN <<>>
               ELSE LET k == LeastOf(body)
                        stops == {j \in (k + 1)..Len(text) : StartsHeading(text[j])}
                        last == IF stops = {} THEN Len(text) ELSE LeastOf(stops) - 1
                    IN TrimLines(SubSeq(text, k, last))

MinItemLength == 10

\* a list extraction that drops the last line of the section
extractListItemsDropsLast(text, sectionName) ==
    LET section == extractSection(text, sectionName)
        lines == SubSeq(section, 1, Len(section) - 1)
        marked == SelectSeqIdx(lines, [i \in 1..Len(lines) |-> LooksLikeListItem(lines[i])], 1)
        stripped == [i \in 1..Len(marked) |-> Trim(StripMarker(marked[i]))]
    IN SelectSeqIdx(stripped,
                    [i \in 1..Len(stripped) |-> LineLength(stripped[i]) > MinItemLength], 1)

extractListItems(text, sectionName) ==
    LET section == extractSection(text, sectionName)
        marked == SelectSeqIdx(section,
                               [i \in 1..Len(section) |-> LooksLikeListItem(section[i])], 1)
        stripped == [i \in 1..Len(marked) |-> Trim(StripMarker(marked[i]))]
    IN SelectSeqIdx(stripped,
                    [i \in 1..Len(stripped) |-> LineLength(stripped[i]) > MinItemLength], 1)

\* lines 132-137 of analyzeWithGPT: the four sections of the answer
ParseSections(text) ==
    [summary |-> extractSection(text, "Summary"),
     competitiveInsights |-> extractListItems(text, "Competitive Insights"),
     recommendations |-> extractListItems(text, "Recommendations"),
     imageQualityAnalysis |-> extractSection(text, "Image Quality Analysis")]

InitReport ==
    /\ pc = "report"
    /\ state = initialState
    /\ loc \in [stage : {"report"}, analysisText : SeqsUpTo(ReportLines, ReportMaxLines)]
    /\ trace = <<>>
    /\ executed = <<>>

\* the answer of the language model is parsed into its sections
ParseReport ==
    /\ pc = "report"
    /\ loc' = [stage |-> "report.parsed", analysisText |-> loc.analysisText,
               sections |-> ParseSections(loc.analysisText)]
    /\ pc' = "report.done"
    /\ UNCHANGED <<state, trace, executed>>

NextReport == ParseReport

SpecReport == InitReport /\ [][NextReport]_vars

----------------------------------------------------------------------------
(* The listing parser, parseAmazonListing, field by field.                   *)
(* The text the number patterns scan is a sequence of tokens: a token is one *)
(* character (a digit, ".", ",", " ", "$") or one word the patterns spell    *)
(* out ("stars", "out", "of", "USD", "ratings", "reviews", "customer",       *)
(* "Price:", "glyph" for the star glyph) or "x" for any other word.          *)

WhiteSpace == {" "}

\* atoms of a pattern: between min and max repetitions of a unit, as many as
\* possible; max = -1 stands for no upper limit
One(S) == [unit |-> <<S>>, min |-> 1, max |-> 1]
Many(S, least) == [unit |-> <<S>>, min |-> least, max |-> -1]
Count(S, lo, hi) == [unit |-> <<S>>, min |-> lo, max |-> hi]
AnyGroup(unit) == [unit |-> unit, min |-> 0, max |-> -1]

RECURSIVE Reps(_, _, _, _)
\* how many units follow one another from pos on, counted up to limit
Reps(unit, s, pos, limit) ==
    IF /\ limit > 0
       /\ pos + Len(unit) - 1 <= Len(s)
       /\ \A j \in 1..Len(unit) : s[pos + j - 1] \in unit[j]
    THEN 1 + Reps(unit, s, pos + Len(unit), limit - 1)
    ELSE 0

RECURSIVE MatchFrom(_, _, _, _)
\* the match of atoms k, k+1, ... at pos that backtracking finds first: each
\* atom takes the most repetitions for which the rest still matches; ends[i]
\* is the position behind atom k+i-1
MatchFrom(atoms, k, s, pos) ==
    IF k > Len(atoms) THEN [ok |-> TRUE, ends |-> <<>>]
    ELSE LET a == atoms[k]
             most == Reps(a.unit, s, pos, IF a.max < 0 THEN Len(s) ELSE a.max)
             tries == {[n |-> n, rest |-> MatchFrom(atoms, k + 1, s, pos + n * Len(a.unit))] :
                          n \in a.min..most}
             good == {x \in tries : x.rest.ok}
         IN IF good = {} THEN [ok |-> FALSE, ends |-> <<>>]
            ELSE LET best == CHOOSE x \in good : \A y \in good : y.n <= x.n
                 IN [ok |-> TRUE,
                     ends |-> <<pos + best.n * Len(a.unit)>> \o best.rest.ends]

\* String.prototype.match without the g flag: the leftmost match and its
\* capture group, which spans the atoms from..to of the pattern
Search(pattern, s) ==
    LET starts == {p \in 1..(Len(s) + 1) : MatchFrom(pattern.atoms, 1, s, p).ok}
    IN IF starts = {} THEN [found |-> FALSE, group |-> <<>>]
       ELSE LET p == LeastOf(starts)
                ends == MatchFrom(pattern.atoms, 1, s, p).ends
                first == IF pattern.from = 1 THEN p ELSE ends[pattern.from - 1]
            IN [found |-> TRUE, group |-> SubSeq(s, first, ends[pattern.to] - 1)]

\* /\$(\d+\.\d{2})/, /Price:\s*\$(\d+\.\d{2})/i, /(\d+\.\d{2})\s*USD/i
pricePatterns ==
    << [atoms |-> <<One({"$"}), Many(Digits, 1), One({"."}), Count(Digits, 2, 2)>>,
        from |-> 2, to |-> 4],
       [atoms |-> <<One({"Price:"}), Many(WhiteSpace, 0), One({"$"}), Many(Digits, 1), One({"."}),
                    Count(Digits, 2, 2)>>,
        from |-> 4, to |-> 6],
       [atoms |-> <<Many(Digits, 1), One({"."}), Count(Digits, 2, 2), Many(WhiteSpace, 0),
                    One({"USD"})>>,
        from |-> 1, to |-> 3] >>

\* /(\d+\.\d+)\s*out\s*of\s*5\s*stars/i, /(\d+\.\d+)\s*<glyph>/, /(\d+\.\d+)\s*stars/i
ratingPatterns ==
    << [atoms |-> <<Many(Digits, 1), One({"."}), Many(Digits, 1), Many(WhiteSpace, 0), One({"out"}),
                    Many(WhiteSpace, 0), One({"of"}), Many(WhiteSpace, 0), One({"5"}),
                    Many(WhiteSpace, 0), One({"stars"})>>,
        from |-> 1, to |-> 3],
       [atoms |-> <<Many(Digits, 1), One({"."}), Many(Digits, 1), Many(WhiteSpace, 0), One({"glyph"})>>,
        from |-> 1, to |-> 3],
       [atoms |-> <<Many(Digits, 1), One({"."}), Many(Digits, 1), Many(WhiteSpace, 0), One({"stars"})>>,
        from |-> 1, to |-> 3] >>

\* /(\d{1,3}(?:,\d{3})*)\s*ratings/i, /(\d{1,3}(?:,\d{3})*)\s*reviews/i,
\* /(\d+)\s*customer\s*reviews/i
reviewPatterns ==
    << [atoms |-> <<Count(Digits, 1, 3), AnyGroup(<<{","}, Digits, Digits, Digits>>),
                    Many(WhiteSpace, 0), One({"ratings"})>>,
        from |-> 1, to |-> 2],
       [atoms |-> <<Count(Digits, 1, 3), AnyGroup(<<{","}, Digits, Digits, Digits>>),
                    Many(WhiteSpace, 0), One({"reviews"})>>,
        from |-> 1, to |-> 2],
       [atoms |-> <<Many(Digits, 1), Many(WhiteSpace, 0), One({"customer"}), Many(WhiteSpace, 0),
                    One({"reviews"})>>,
        from |-> 1, to |-> 1] >>

\* the for loop over the patterns: the first pattern that matches decides
FirstMatch(patterns, s) ==
    LET hits == {i \in 1..Len(patterns) : Search(patterns[i], s).found}
    IN IF hits = {} THEN [found |-> FALSE, group |-> <<>>]
       ELSE Search(patterns[LeastOf(hits)], s)

(* A number is kept as the decimal it writes: its sign, the digits of the    *)
(* whole part without leading zeros and the digits of the fraction without  *)
(* trailing zeros, so that two texts of the same number give the same       *)
(* value (4.70 and 04.7 are 4.7, 0.00 and 0 are zero) whatever their length. *)

RECURSIVE StripLeadingZeros(_)
StripLeadingZeros(ds) ==
    IF ds # <<>> /\ Head(ds) = "0" THEN StripLeadingZeros(Tail(ds)) ELSE ds

RECURSIVE StripTrailingZeros(_)
StripTrailingZeros(ds) ==
    IF ds # <<>> /\ ds[Len(ds)] = "0"
    THEN StripTrailingZeros(SubSeq(ds, 1, Len(ds) - 1)) ELSE ds

Decimal(sign, whole, fraction) ==
    [sign |-> sign, whole |-> StripLeadingZeros(whole), fraction |-> StripTrailingZeros(fraction)]

\* parseFloat of digits "." digits
parseFloat(s) ==
    LET dot == LeastOf({i \in 1..Len(s) : s[i] = "."})
    IN Decimal(1, SubSeq(s, 1, dot - 1), SubSeq(s, dot + 1, Len(s)))

\* parseInt(group.replace(/,/g, ""))
parseInt(s) ==
    Decimal(1, SelectSeqIdx(s, [i \in 1..Len(s) |-> s[i] # ","], 1), <<>>)

\* a default of -1 for a field that was not found
NotFoundNegative == Decimal(-1, <<"1">>, <<>>)

\* let price = 0, let rating = 0, let reviewCount = 0
NotFound == Decimal(1, <<>>, <<>>)

\* lines 152-165
ExtractPrice(text) ==
    LET m == FirstMatch(pricePatterns, text)
    IN IF m.found THEN parseFloat(m.group) ELSE NotFound

\* lines 170-183
ExtractRating(text) ==
    LET m == FirstMatch(ratingPatterns, text)
    IN IF m.found THEN parseFloat(m.group) ELSE NotFound

\* lines 188-201
ExtractReviewCount(text) ==
    LET m == FirstMatch(reviewPatterns, text)
    IN IF m.found THEN parseInt(m.group) ELSE NotFound

(* Bullets.  An a-list-item span of the feature-bullets container and a     *)
(* bullet line of the markdown view are lines of runs as in the report      *)
(* text; a run of class "<" is a tag.                                        *)

BulletMinLength == 20
BulletMaxLength == 500
MaxBullets == 10

\* one match of /<span[^>]*class="a-list-item"[^>]*>([\s\S]*?)<\/span>/gi: the
\* whole match, the two span tags included
HtmlSpan(content) == <<Run("<", 26, "span")>> \o content \o <<Run("<", 7, "/span")>>

RECURSIVE CollapseSpace(_)
\* .replace(/\s+/g, " ")
CollapseSpace(l) ==
    IF l = <<>> THEN <<>>
    ELSE IF Head(l).c = " "
         THEN <<Run(" ", 1, " ")>> \o CollapseSpace(TrimStart(Tail(l)))
         ELSE <<Head(l)>> \o CollapseSpace(Tail(l))

\* lines 219-222: .replace(/<[^>]+>/g, "").replace(/\s+/g, " ").trim()
CleanHtmlBullet(span) ==
    LET text == SelectSeqIdx(span, [i \in 1..Len(span) |-> span[i].c # "<"], 1)
    IN Trim(CollapseSpace(text))

\* a length filter that takes a cleaned length of 20 as well
HasBulletLengthFrom20(cleaned) ==
    LineLength(cleaned) >= BulletMinLength /\ LineLength(cleaned) < BulletMaxLength

\* cleaned.length > 20 && cleaned.length < 500
HasBulletLength(cleaned) ==
    LineLength(cleaned) > BulletMinLength /\ LineLength(cleaned) < BulletMaxLength

\* /^[\*\-]\s+(.+)$/gm: a line that starts with one marker and white space
IsMarkdownBullet(l) ==
    Len(l) >= 3 /\ l[1].c \in {"*", "-"} /\ l[1].n = 1 /\ l[2].c = " "

\* bullet.replace(/^[\*\-]\s+/, "").trim()
CleanMarkdownBullet(l) == TrimEnd(SubSeq(l, 3, Len(l)))

\* excludePatterns: the id of a run of text names the phrase it starts with
IsExcludedBullet(c) ==
    /\ c # <<>>
    /\ \/ c[1].c = "t" /\ c[1].id \in {"Customer Questions", "Product Details",
                                       "Technical Details", "Additional Information",
                                       "See more product details", "Reviewed in"}
       \/ Len(c) = 1 /\ c[1].id \in {"Read more", "Show more"}
       \/ /\ Len(c) >= 4
          /\ c[1].c = "d" /\ c[2].c = "." /\ c[2].n = 1 /\ c[3].c = "d"
          /\ LET rest == TrimStart(SubSeq(c, 4, Len(c)))
             IN rest # <<>> /\ rest[1].id = "out of"

\* lines 206-256: the local array bullets before it is cut to 10
ExtractBullets(markdown, html) ==
    LET cleanedHtml == [i \in 1..Len(html.bullets) |-> CleanHtmlBullet(html.bullets[i])]
        fromHtml == SelectSeqIdx(cleanedHtml,
                        [i \in 1..Len(cleanedHtml) |-> HasBulletLength(cleanedHtml[i])], 1)
        lines == SelectSeqIdx(markdown.bullets,
                     [i \in 1..Len(markdown.bullets) |-> IsMarkdownBullet(markdown.bullets[i])], 1)
        cleanedMd == [i \in 1..Len(lines) |-> CleanMarkdownBullet(lines[i])]
        fromMd == SelectSeqIdx(cleanedMd,
                      [i \in 1..Len(cleanedMd) |->
                          ~IsExcludedBullet(cleanedMd[i]) /\ HasBulletLength(cleanedMd[i])], 1)
    IN IF Len(fromHtml) = 0 THEN fromMd ELSE fromHtml

(* Images.  An image URL found in a view is its host and its tail, the      *)
(* tokens behind "/images/I/": identifiers, ".", "/", variant tokens such   *)
(* as "_AC_UL320_", and extensions.  landing marks the src of the element   *)
(* with id landingImage, aplus a URL inside an A+ container.                 *)

Url(host, tail) == [host |-> host, tail |-> tail, landing |-> FALSE, aplus |-> FALSE]

VariantTokens == {"_AC_UL320_", "_AC_SX679_", "_AC_SL1500_"}

\* ([A-Za-z0-9\+_-]+): the tokens before the first "." or "/"
BaseId(tail) ==
    LET stops == {i \in 1..Len(tail) : tail[i] \in {".", "/"}}
    IN IF stops = {} THEN tail ELSE SubSeq(tail, 1, LeastOf(stops) - 1)

\* a match of imagePattern
MatchesImagePattern(u) ==
    /\ u.host \in {"m.media-amazon.com", "images-na.ssl-images-amazon.com"}
    /\ BaseId(u.tail) # <<>>

\* a loop body that files every match under a key of its own
RecordImageEveryMatch(map, u) ==
    IF MatchesImagePattern(u)
    THEN Append(map, [key |-> BaseId(u.tail), val |-> [host |-> u.host, tail |-> u.tail]])
    ELSE map

\* lines 279-286 and 290-297: if (!imageBaseIds.has(baseId)) imageBaseIds.set(baseId, fullUrl)
RecordImage(map, u) ==
    IF MatchesImagePattern(u) /\ ~MapHas(map, BaseId(u.tail))
    THEN MapSet(map, BaseId(u.tail), [host |-> u.host, tail |-> u.tail])
    ELSE map

RECURSIVE CollectImages(_, _)
\* for (const match of view.matchAll(imagePattern))
CollectImages(map, urls) ==
    IF urls = <<>> THEN map
    ELSE CollectImages(RecordImage(map, Head(urls)), Tail(urls))

HasDotAfterId(tail) == BaseId(tail) # <<>> /\ Len(tail) > Len(BaseId(tail)) /\ tail[Len(BaseId(tail)) + 1] = "."

\* lines 300-309: the landing image, else the first key of imageBaseIds
MainImageId(html, imageBaseIds) ==
    LET marked == {i \in 1..Len(html.urls) :
                     html.urls[i].landing /\ HasDotAfterId(html.urls[i].tail)}
    IN IF marked # {} THEN BaseId(html.urls[LeastOf(marked)].tail)
       ELSE IF MapSize(imageBaseIds) > 0 THEN MapKeys(imageBaseIds)[1]
       ELSE <<>>

\* lines 312-321
AplusImageIds(html) ==
    {BaseId(html.urls[i].tail) :
        i \in {j \in 1..Len(html.urls) : html.urls[j].aplus /\ HasDotAfterId(html.urls[j].tail)}}

EndsWithExtension(tail, extensions) ==
    Len(tail) >= 2 /\ tail[Len(tail) - 1] = "." /\ tail[Len(tail)] \in extensions

\* lines 324-329: the filter's predicate, negated
IsNonImageAsset(tail) ==
    \/ \E i \in 1..(Len(tail) - 1) : tail[i] = "." /\ tail[i + 1] \in {"css", "js", "html"}
    \/ /\ \E i \in 1..(Len(tail) - 1) : tail[i] = "AUIClients" /\ tail[i + 1] = "/"
       /\ ~EndsWithExtension(tail, {"jpg", "jpeg", "png", "gif", "webp"})

\* a rewrite that only completes the extension
FixUrlExtensionOnly(tail) ==
    IF EndsWithExtension(tail, {"jpg", "jpeg", "png", "gif"})
    THEN tail ELSE tail \o <<".", "jpg">>

\* lines 334-349
FixUrl(tail) ==
    LET variants == {i \in 1..(Len(tail) - 2) :    \* matches of /\._[A-Z0-9_]+\./
                       tail[i] = "." /\ tail[i + 1] \in VariantTokens /\ tail[i + 2] = "."}
    IN
    IF tail[Len(tail)] = "." /\ ~\E i \in 1..(Len(tail) - 1) :
                                    tail[i] = "." /\ tail[i + 1] \in VariantTokens
    THEN tail \o <<"_AC_SL1500_", ".", "jpg">>
    ELSE IF variants # {}
         THEN LET replaced == [tail EXCEPT ![LeastOf(variants) + 1] = "_AC_SL1500_"]
              IN IF EndsWithExtension(replaced, {"jpg", "jpeg", "png", "gif"})
                 THEN replaced ELSE Append(replaced, "jpg")
         ELSE IF EndsWithExtension(tail, {"jpg", "jpeg", "png", "gif"})
              THEN tail ELSE tail \o <<".", "jpg">>

\* an array images cut to its first ten entries, as the bullets are
BuildImagesCapped(html, imageBaseIds) ==
    LET filteredImages ==
            SelectSeqIdx(imageBaseIds,
                [i \in 1..Len(imageBaseIds) |-> ~IsNonImageAsset(imageBaseIds[i].val.tail)], 1)
    IN [index \in 1..Min(Len(filteredImages), MaxBullets) |->
          [url |-> [host |-> filteredImages[index].val.host,
                    tail |-> filteredImages[index].val.tail],
           type |-> "secondary", position |-> index]]

\* lines 324-364: the array images
BuildImages(html, imageBaseIds) ==
    LET filteredImages ==
            SelectSeqIdx(imageBaseIds,
                [i \in 1..Len(imageBaseIds) |-> ~IsNonImageAsset(imageBaseIds[i].val.tail)], 1)
        mainImageId == MainImageId(html, imageBaseIds)
    IN [index \in 1..Len(filteredImages) |->
          LET baseId == filteredImages[index].key
              url == filteredImages[index].val
          IN [url |-> [host |-> url.host, tail |-> FixUrl(url.tail)],
              type |-> IF baseId = mainImageId THEN "main"
                       ELSE IF baseId \in AplusImageIds(html) THEN "aplus"
                       ELSE "secondary",
              position |-> index]]

(* The parser as a whole.  A view is null or the parts of the document the  *)
(* patterns look at: the text with the numbers, the bullet candidates, the  *)
(* image URLs.  Title, description and time stamp are left out.             *)

View(text, bullets, urls) ==
    [isNull |-> FALSE, text |-> text, bullets |-> bullets, urls |-> urls]

\* html.match (line 117) and markdown.match (lines 124, 160) on null
ThrowsTypeError(markdown, html) == html.isNull \/ markdown.isNull

\* lines 111-382: the local variables at the return statement and its value
ParseBody(markdown, html, asin) ==
    LET bullets == ExtractBullets(markdown, html)
        imageBaseIds == CollectImages(CollectImages(EmptyMap, html.urls), markdown.urls)
    IN [bullets |-> bullets,
        imageBaseIds |-> imageBaseIds,
        result |-> [success |-> TRUE,
                    data |-> [asin |-> asin,
                              price |-> ExtractPrice(markdown.text),
                              rating |-> ExtractRating(markdown.text),
                              reviewCount |-> ExtractReviewCount(markdown.text),
                              bullets |-> Slice0(bullets, MaxBullets),
                              images |-> BuildImages(html, imageBaseIds)]]]

\* a parser without its try/catch
ParseCallUncaught(markdown, html, asin) ==
    IF ThrowsTypeError(markdown, html)
    THEN [outcome |-> "raised"]
    ELSE [outcome |-> "returned"] @@ ParseBody(markdown, html, asin)

\* lines 110 and 384-389: the call of parseAmazonListing, with its try/catch
ParseCall(markdown, html, asin) ==
    IF ThrowsTypeError(markdown, html)
    THEN [outcome |-> "returned",
          result |-> [success |-> FALSE, error |-> "Cannot read properties of null"]]
    ELSE [outcome |-> "returned"] @@ ParseBody(markdown, html, asin)

(* The inputs of the parser in the exploration *)

NumMaxChunks == 3       \* pieces the text with the numbers is put together from
BulletMaxCands == 2     \* bullet candidates of a view, apart from the long lists
ManyBullets == 11       \* length of the long lists of bullet candidates
ImageMaxUrls == 2       \* image URLs in the html view
ManyImages == 16        \* length of the long list of image URLs

RECURSIVE Flatten(_)
Flatten(ss) == IF ss = <<>> THEN <<>> ELSE Head(ss) \o Flatten(Tail(ss))

\* pieces of markdown text around the numbers
NumberChunks ==
    { <<"$">>, <<"4", ".", "7">>, <<"9", ".", "5">>, <<"0", ".", "0", "0">>,
      <<"1", "2", ",", "3", "4", "5">>, <<"1", "2", "3", "4", "5">>,
      <<" ", "stars">>, <<"out", " ", "of", " ", "5", " ", "stars">>,
      <<" ", "ratings">>, <<"reviews">>, <<"customer", " ", "reviews">> }

\* spans of the feature-bullets container: text of 19, 20, 21, 499 and 500
\* characters, text inside tags, text with runs of white space, and two
\* pieces of text separated by a tag only
HtmlSpans ==
    { HtmlSpan(<<Run("t", 19, "h19")>>), HtmlSpan(<<Run("t", 20, "h20")>>),
      HtmlSpan(<<Run("t", 21, "h21")>>), HtmlSpan(<<Run("t", 499, "h499")>>),
      HtmlSpan(<<Run("t", 500, "h500")>>),
      HtmlSpan(<<Run("<", 3, "b"), Run("t", 21, "bold"), Run("<", 4, "/b")>>),
      HtmlSpan(<<Run(" ", 2, " "), Run("t", 10, "w1"), Run(" ", 3, " "), Run("t", 9, "w2"),
                 Run(" ", 1, " ")>>),
      HtmlSpan(<<Run("t", 10, "j1"), Run("<", 4, "br"), Run("t", 11, "j2")>>) }

MarkdownBulletLines ==
    { ListLine(0, Marker("*"), 21, "m21"), ListLine(0, Marker("-"), 20, "m20"),
      ListLine(0, Marker("-"), 499, "m499"), ListLine(0, Marker("*"), 500, "m500"),
      ListLine(0, Marker("*"), 30, "Customer Questions"), ListLine(2, Marker("-"), 30, "indented"),
      <<Run("*", 1, "*"), Run(" ", 2, " "), Run("t", 25, "m25"), Run(" ", 2, " ")>> }

\* short lists of candidates, and lists of ManyBullets equal candidates
\* followed by at most one more
BulletLists(candidates, long) ==
    SeqsUpTo(candidates, BulletMaxCands)
    \cup {[i \in 1..ManyBullets |-> long] \o tail : tail \in SeqsUpTo(candidates, 1)}

ImageUrls ==
    { Url("m.media-amazon.com", <<"idA", ".", "_AC_UL320_", ".", "jpg">>),
      Url("m.media-amazon.com", <<"idA", ".", "jpg">>),
      Url("m.media-amazon.com", <<"idA">>),
      Url("images-na.ssl-images-amazon.com", <<"idB", ".", "_AC_SL1500_", ".", "png">>),
      Url("m.media-amazon.com", <<"idB", ".">>),
      Url("m.media-amazon.com", <<"idB", ".", "_AC_UL320_", ".">>),
      Url("m.media-amazon.com", <<"idC", ".", "css">>),
      Url("m.media-amazon.com", <<"idC", ".", "_AC_UL320_", ".", "webp">>),
      [Url("m.media-amazon.com", <<"idB", ".", "_AC_SX679_", ".", "jpg">>)
          EXCEPT !.landing = TRUE],
      [Url("images-eu.ssl-images-amazon.com", <<"idD", ".", "jpg">>) EXCEPT !.landing = TRUE],
      [Url("m.media-amazon.com", <<"idD", ".", "jpg">>) EXCEPT !.aplus = TRUE] }

\* URLs of k different assets, with a variant token
ManyImageUrls(k) ==
    [i \in 1..k |->
        Url("m.media-amazon.com", <<"img", ToString(i), ".", "_AC_UL320_", ".", "jpg">>)]

EmptyView == View(<<>>, <<>>, <<>>)

InputFamilies == {"numbers", "htmlBullets", "markdownBullets", "images", "manyImages", "null"}

\* the pairs of views the parser is called with, by family: a text with
\* numbers; bullet candidates in either view; image URLs in both views; null
\* for either view
ParserInputs(family) ==
    CASE family = "numbers" ->
           {[markdown |-> View(Flatten(chunks), <<>>, <<>>), html |-> EmptyView] :
               chunks \in SeqsUpTo(NumberChunks, NumMaxChunks)}
      [] family = "htmlBullets" ->
           {[markdown |-> View(<<>>, <<ListLine(0, Marker("*"), 21, "m21")>>, <<>>),
             html |-> View(<<>>, spans, <<>>)] :
               spans \in BulletLists(HtmlSpans, HtmlSpan(<<Run("t", 40, "long")>>))}
      [] family = "markdownBullets" ->
           {[markdown |-> View(<<>>, lines, <<>>), html |-> View(<<>>, spans, <<>>)] :
               lines \in BulletLists(MarkdownBulletLines, ListLine(0, Marker("-"), 40, "long")),
               spans \in {<<>>, <<HtmlSpan(<<Run("t", 19, "h19")>>)>>}}
      [] family = "images" ->
           {[markdown |-> View(<<>>, <<>>, found), html |-> View(<<>>, <<>>, urls)] :
               found \in SeqsUpTo({Url("m.media-amazon.com", <<"idA", ".", "jpg">>),
                                   Url("m.media-amazon.com", <<"idC", ".", "_AC_UL320_", ".", "webp">>)}, 1),
               urls \in SeqsUpTo(ImageUrls, ImageMaxUrls)}
      [] family = "manyImages" ->
           {[markdown |-> View(<<>>, <<>>, found),
             html |-> View(<<>>, <<>>, first \o ManyImageUrls(ManyImages) \o last)] :
               found \in SeqsUpTo({Url("m.media-amazon.com", <<"idA", ".", "jpg">>)}, 1),
               first \in SeqsUpTo({Url("m.media-amazon.com", <<"idA", ".", "_AC_UL320_", ".", "jpg">>),
                                   Url("m.media-amazon.com", <<"idC", ".", "css">>)}, 1),
               last \in SeqsUpTo({Url("m.media-amazon.com", <<"idB", ".">>),
                                  ManyImageUrls(1)[1]}, 1)}
      [] family = "null" ->
           {[markdown |-> m, html |-> h] :
               m \in {Null, EmptyView, View(<<"$", "4", ".", "7">>, <<>>, <<>>)},
               h \in {Null, EmptyView, View(<<>>, <<HtmlSpan(<<Run("t", 21, "h21")>>)>>, <<>>)}}

InitParse ==
    /\ pc = "parse"
    /\ state = initialState
    /\ \E family \in InputFamilies :
         \E i \in ParserInputs(family) :
            loc = [stage |-> "parse", markdown |-> i.markdown, html |-> i.html]
    /\ trace = <<>>
    /\ executed = <<>>

\* await parseAmazonListing(markdown, html, asin)
ParseListing ==
    /\ pc = "parse"
    /\ loc' = [stage |-> "parse.done", markdown |-> loc.markdown, html |-> loc.html,
               call |-> ParseCall(loc.markdown, loc.html, Asin("1"))]
    /\ pc' = "parse.done"
    /\ UNCHANGED <<state, trace, executed>>

NextParse == ParseListing

SpecParse == InitParse /\ [][NextParse]_vars

(* The imageBlock parser: the parseAmazonListing of part_000:515-765, which  *)
(* the unit tests exercise.  Only its images are modelled here.  The HTML    *)
(* view is the image URLs inside the imageBlock container (block) and those  *)
(* of the rest of the document (rest).                                       *)

MaxImages == 15

\* a match of /https:\/\/m\.media-amazon\.com\/images\/I\/([A-Za-z0-9\+_-]+)\./g
MatchesBlockPattern(u) == u.host = "m.media-amazon.com" /\ HasDotAfterId(u.tail)

RECURSIVE CollectBlockImages(_, _)
\* the three for loops: match[0] ends with the dot behind the identifier
CollectBlockImages(map, urls) ==
    IF urls = <<>> THEN map
    ELSE LET u == Head(urls)
             baseId == BaseId(u.tail)
         IN CollectBlockImages(
                IF MatchesBlockPattern(u) /\ ~MapHas(map, baseId)
                THEN MapSet(map, baseId, [host |-> u.host, tail |-> baseId \o <<".">>])
                ELSE map,
                Tail(urls))

\* url.replace(/\._[A-Z0-9_]+\./, "._AC_SL1500_.")
ReplaceVariantToken(tail) ==
    LET variants == {i \in 1..(Len(tail) - 2) :
                       tail[i] = "." /\ tail[i + 1] \in VariantTokens /\ tail[i + 2] = "."}
    IN IF variants = {} THEN tail
       ELSE [tail EXCEPT ![LeastOf(variants) + 1] = "_AC_SL1500_"]

\* an array images that is not cut
ImageBlockImagesUncut(markdown, block, rest) ==
    LET fromBlock == CollectBlockImages(EmptyMap, block)
        imageBaseIds == IF MapSize(fromBlock) = 0
                        THEN CollectBlockImages(CollectBlockImages(EmptyMap, markdown),
                                                block \o rest)
                        ELSE fromBlock
    IN [index \in 1..Len(imageBaseIds) |->
          [url |-> [host |-> imageBaseIds[index].val.host,
                    tail |-> ReplaceVariantToken(imageBaseIds[index].val.tail)],
           type |-> IF index = 1 THEN "main" ELSE "secondary",
           position |-> index]]

\* lines 680-735
ImageBlockImages(markdown, block, rest) ==
    LET fromBlock == CollectBlockImages(EmptyMap, block)
        imageBaseIds == IF MapSize(fromBlock) = 0
                        THEN CollectBlockImages(CollectBlockImages(EmptyMap, markdown),
                                                block \o rest)
                        ELSE fromBlock
        imageUrls == Slice0(imageBaseIds, MaxImages)
    IN [index \in 1..Len(imageUrls) |->
          [url |-> [host |-> imageUrls[index].val.host,
                    tail |-> ReplaceVariantToken(imageUrls[index].val.tail)],
           type |-> IF index = 1 THEN "main" ELSE "secondary",
           position |-> index]]

InitBlock ==
    /\ pc = "block"
    /\ state = initialState
    /\ \E block \in SeqsUpTo(ImageUrls, ImageMaxUrls)
                      \cup {ManyImageUrls(ManyImages) \o last : last \in SeqsUpTo(ImageUrls, 1)} :
         \E rest \in SeqsUpTo({ManyImageUrls(1)[1], ManyImageUrls(ManyImages + 1)[ManyImages + 1]}, 1) :
           \E markdown \in SeqsUpTo({ManyImageUrls(2)[2]}, 1) :
              loc = [stage |-> "block", markdown |-> markdown, block |-> block, rest |-> rest]
    /\ trace = <<>>
    /\ executed = <<>>

\* await parseAmazonListing(markdown, html, asin), the images of its result
ParseImageBlock ==
    /\ pc = "block"
    /\ loc' = [stage |-> "block.done", markdown |-> loc.markdown, block |-> loc.block,
               rest |-> loc.rest,
               images |-> ImageBlockImages(loc.markdown, loc.block, loc.rest)]
    /\ pc' = "block.done"
    /\ UNCHANGED <<state, trace, executed>>

NextBlock == ParseImageBlock

SpecBlock == InitBlock /\ [][NextBlock]_vars

----------------------------------------------------------------------------
(* readAsinsFromSheet *)

SheetDone == pc = "sheet.done"

\* the rows below the header row
DataRows == SubSeq(loc.rows, 2, Len(loc.rows))

Accepted(row) == \E k \in 1..Len(state.asins) : state.asins[k] = ToUpperCase(row)

IsAlphaNum(c) == UpperChar(c) \in Digits \cup UpperLetters

LetterThenNine(row) ==
    /\ Len(row) = 10
    /\ UpperChar(row[1]) \in UpperLetters
    /\ \A i \in 2..10 : IsAlphaNum(row[i])

BThenNine(row) ==
    /\ Len(row) = 10
    /\ row[1] \in {"B", "b"}
    /\ \A i \in 2..10 : IsAlphaNum(row[i])

EmittedUpperCase ==
    \A k \in 1..Len(state.asins) :
        /\ \A i \in 1..Len(state.asins[k]) : state.asins[k][i] \notin LowerLetters
        /\ ToUpperCase(state.asins[k]) = state.asins[k]

\* C12 as stated: a row is accepted iff it is one letter followed by exactly
\* nine letters or digits, in either case; accepted identifiers are emitted
\* in upper case, and upper-casing an emitted identifier changes nothing.
C12_AnyLetterThenNineAccepted ==
    SheetDone =>
        /\ \A i \in 1..Len(DataRows) : Accepted(DataRows[i]) <=> LetterThenNine(DataRows[i])
        /\ EmittedUpperCase

\* C12 amended: a row is accepted iff it is the letter B (or b) followed by
\* exactly nine letters or digits, in either case; accepted identifiers are
\* emitted in upper case, and upper-casing an emitted identifier changes nothing.
C12_BThenNineAccepted ==
    SheetDone =>
        /\ \A i \in 1..Len(DataRows) : Accepted(DataRows[i]) <=> BThenNine(DataRows[i])
        /\ EmittedUpperCase

\* a sheet with a row starting with A (dropped) and a lower-case row (kept,
\* upper-cased)
C12_Witness ==
    /\ SheetDone
    /\ DataRows = << <<"A", "0", "0", "0", "0", "0", "0", "0", "0", "1">>,
                     <<"b", "0", "0", "0", "0", "0", "0", "0", "z", "a">> >>
    /\ state.asins = << <<"B", "0", "0", "0", "0", "0", "0", "0", "Z", "A">> >>

ValidRowIndices == {i \in 1..Len(DataRows) : MatchesAsinPattern(DataRows[i])}

FirstRowOf(u) ==
    LET rows == {i \in ValidRowIndices : ToUpperCase(DataRows[i]) = u}
    IN CHOOSE i \in rows : \A j \in rows : i <= j

----------------------------------------------------------------------------
(* extractListItems *)

ReportDone == pc = "report.done"

\* '-', '*' or a numeral with its delimiter, behind any indentation, then
\* white space and more than 10 characters of content
IsWellFormedListLine(line) ==
    LET l == Trim(line)
        marker == IF l # <<>> /\ l[1].c \in {"-", "*"} /\ l[1].n = 1 THEN 1
                  ELSE IF Len(l) > 1 /\ l[1].c = "d" /\ l[2].c \in {".", ")"} /\ l[2].n = 1
                       THEN 2
                       ELSE 0
        content == TrimStart(SubSeq(l, marker + 1, Len(l)))
    IN /\ marker > 0
       /\ content # <<>>
       /\ content[1].c = "t"
       /\ LineLength(content) > 10

FirstRecommendationsHeading ==
    LeastOf({h \in 1..Len(loc.analysisText) :
               IsHeadingOf(loc.analysisText[h], "Recommendations")})

\* the lines from the heading to the next heading or the end of the text
ListedLines ==
    LET text == loc.analysisText
        h == FirstRecommendationsHeading
        stops == {j \in (h + 1)..Len(text) : StartsHeading(text[j])}
        last == IF stops = {} THEN Len(text) ELSE LeastOf(stops) - 1
    IN SubSeq(text, h + 1, last)

WellFormedListed ==
    SelectSeqIdx(ListedLines,
                 [i \in 1..Len(ListedLines) |-> IsWellFormedListLine(ListedLines[i])], 1)

\* the text has the heading, and the lines from it to the next heading (or to
\* the end) are well-formed list lines, at least one, and blank lines
HeadingThenListLines ==
    /\ \E h \in 1..Len(loc.analysisText) : IsHeadingOf(loc.analysisText[h], "Recommendations")
    /\ \A i \in 1..Len(ListedLines) :
         IsWellFormedListLine(ListedLines[i]) \/ IsBlank(ListedLines[i])
    /\ Len(WellFormedListed) >= 1

ContentId(line) == line[Len(line)].id

\* C14: when the text has a '## Recommendations' heading followed by N
\* well-formed list lines, the parsed recommendations are N entries, the i-th
\* of which comes from the i-th of those lines.
C14_OneEntryPerListLine ==
    ReportDone /\ HeadingThenListLines =>
        LET out == loc.sections.recommendations
        IN /\ Len(out) = Len(WellFormedListed)
           /\ \A i \in 1..Len(out) : ContentId(out[i]) = ContentId(WellFormedListed[i])

\* a numbered line and an indented dash line under the heading, then the next
\* section: two entries, in that order
C14_Witness ==
    /\ ReportDone
    /\ loc.analysisText = << Heading(2, "Recommendations", 15),
                             ListLine(0, Numbered(1, "."), 11, "c"),
                             ListLine(2, Marker("-"), 12, "d"),
                             Heading(2, "Summary", 7) >>
    /\ Len(loc.sections.recommendations) = 2
    /\ ContentId(loc.sections.recommendations[1]) = "c"
    /\ ContentId(loc.sections.recommendations[2]) = "d"

----------------------------------------------------------------------------
(* parseAmazonListing *)

ParseDone == pc = "parse.done"

ParseSucceeded == ParseDone /\ loc.call.outcome = "returned" /\ loc.call.result.success

\* C11: for any two strings, the empty string included, the call returns a
\* success result; when either argument is null it returns a failure result
\* {success: false, error}; in no case does the call raise.
C11_ParserIsTotal ==
    ParseDone =>
        /\ loc.call.outcome = "returned"
        /\ (~loc.markdown.isNull /\ ~loc.html.isNull) =>
               loc.call.result.success /\ "data" \in DOMAIN loc.call.result
        /\ (loc.markdown.isNull \/ loc.html.isNull) =>
               ~loc.call.result.success /\ "error" \in DOMAIN loc.call.result

\* a call with a null markdown view and a present html view has returned a failure
C11_Witness ==
    /\ ParseDone
    /\ loc.markdown.isNull
    /\ ~loc.html.isNull
    /\ loc.call.outcome = "returned"
    /\ ~loc.call.result.success

CleanedHtmlCandidates ==
    {CleanHtmlBullet(loc.html.bullets[i]) : i \in 1..Len(loc.html.bullets)}

CleanedMarkdownCandidates ==
    {c \in {CleanMarkdownBullet(loc.markdown.bullets[i]) :
              i \in {j \in 1..Len(loc.markdown.bullets) :
                       IsMarkdownBullet(loc.markdown.bullets[j])}} :
        ~IsExcludedBullet(c)}

KeptBullet(c) == c \in Range(loc.call.bullets)

\* the cleaned candidates the length filter has decided on: those of the HTML
\* container and, when none of them was kept, those of the markdown lines that
\* the denylist let through
LengthFiltered ==
    IF \E c \in CleanedHtmlCandidates : KeptBullet(c)
    THEN CleanedHtmlCandidates
    ELSE CleanedHtmlCandidates \cup CleanedMarkdownCandidates

OutputBullets == loc.call.result.data.bullets

OutputImages == loc.call.result.data.images

\* the image-asset URLs of the input in the order the parser scans them
ScannedUrls == SelectSeq(loc.html.urls \o loc.markdown.urls, MatchesImagePattern)

OccurrencesOf(id) ==
    LET scanned == ScannedUrls
    IN {i \in 1..Len(scanned) : BaseId(scanned[i].tail) = id}

ScannedIds ==
    LET scanned == ScannedUrls
    IN {BaseId(scanned[i].tail) : i \in 1..Len(scanned)}

FirstOccurrence(id) == LeastOf(OccurrencesOf(id))

ImageRefsOf(id) == {i \in 1..Len(OutputImages) : BaseId(OutputImages[i].url.tail) = id}

\* rank of the first occurrence of id among the first occurrences of ids
RankAmong(ids, id) ==
    LET own == FirstOccurrence(id)
    IN 1 + Cardinality({other \in ids : FirstOccurrence(other) < own})

\* the identifiers whose first-found URL is not rejected as a non-image asset
SurvivingIds ==
    LET scanned == ScannedUrls
    IN {id \in ScannedIds : ~IsNonImageAsset(scanned[FirstOccurrence(id)].tail)}

\* C16 as stated: every base image identifier found in the views has exactly
\* one ImageRef in the output, at the rank of its first occurrence among the
\* distinct identifiers, the HTML view scanned before the markdown view.
C16_OneImageRefPerIdentifier ==
    ParseSucceeded =>
        \A id \in ScannedIds :
            /\ Cardinality(ImageRefsOf(id)) = 1
            /\ ImageRefsOf(id) = {RankAmong(ScannedIds, id)}

\* C16 amended: an identifier whose first-found URL is not rejected as a
\* non-image asset has exactly one ImageRef, at the rank of its first
\* occurrence among such identifiers and with that rank as its position; an
\* identifier whose first-found URL is rejected has none.
C16_OneImageRefPerSurvivingIdentifier ==
    ParseSucceeded =>
        /\ Len(OutputImages) = Cardinality(SurvivingIds)
        /\ \A id \in ScannedIds \ SurvivingIds : ImageRefsOf(id) = {}
        /\ \A id \in SurvivingIds :
             /\ ImageRefsOf(id) = {RankAmong(SurvivingIds, id)}
             /\ OutputImages[RankAmong(SurvivingIds, id)].position = RankAmong(SurvivingIds, id)

\* an identifier found second in the HTML view and again in the markdown view
C16_Witness ==
    /\ ParseSucceeded
    /\ \E id \in SurvivingIds :
         /\ Cardinality(OccurrencesOf(id)) >= 2
         /\ \E i \in OccurrencesOf(id) : i > Len(loc.html.urls)
         /\ RankAmong(SurvivingIds, id) = 2
         /\ ImageRefsOf(id) = {2}

MainImageRefs == {i \in 1..Len(OutputImages) : OutputImages[i].type = "main"}

\* the URLs of the HTML view that the landingImage pattern finds
LandingMarked ==
    {i \in 1..Len(loc.html.urls) :
        loc.html.urls[i].landing /\ HasDotAfterId(loc.html.urls[i].tail)}

\* C17: a successful parse with a non-empty image list has exactly one
\* ImageRef of role main; it is the landing image when the HTML view marks
\* one, and the first ImageRef otherwise.
C17_ExactlyOneMain ==
    (ParseSucceeded /\ OutputImages # <<>>) =>
        /\ Cardinality(MainImageRefs) = 1
        /\ \A i \in MainImageRefs :
             IF LandingMarked # {}
             THEN BaseId(OutputImages[i].url.tail)
                    = BaseId(loc.html.urls[LeastOf(LandingMarked)].tail)
             ELSE i = 1

EndsWith(tail, suffix) ==
    Len(tail) >= Len(suffix)
    /\ SubSeq(tail, Len(tail) - Len(suffix) + 1, Len(tail)) = suffix

\* the identifiers with an ImageRef whose first-found URL is in the HTML view
HtmlFoundIds ==
    {id \in SurvivingIds : FirstOccurrence(id) <= Len(SelectSeq(loc.html.urls, MatchesImagePattern))}

FoundUrl(id) == ScannedUrls[FirstOccurrence(id)]

ImageRefOf(id) == OutputImages[RankAmong(SurvivingIds, id)]

\* C18 as stated: an image-asset URL of the HTML view that ends in the bare
\* base identifier, with no extension and no resolution token, is returned
\* with a url ending in "_AC_SL1500_.jpg".
C18_BareIdGetsHighResToken ==
    ParseSucceeded =>
        \A id \in HtmlFoundIds :
            FoundUrl(id).tail = id
                => EndsWith(ImageRefOf(id).url.tail, <<"_AC_SL1500_", ".", "jpg">>)

\* C18 amended: an image-asset URL of the HTML view that ends in the base
\* identifier followed by a dot is returned with a url ending in
\* "_AC_SL1500_.jpg"; one that ends in the base identifier itself is returned
\* with the extension ".jpg" added and no resolution token.
C18_DottedIdGetsHighResToken ==
    ParseSucceeded =>
        \A id \in HtmlFoundIds :
            /\ FoundUrl(id).tail = id \o <<".">>
                 => ImageRefOf(id).url.tail = id \o <<".", "_AC_SL1500_", ".", "jpg">>
            /\ FoundUrl(id).tail = id
                 => ImageRefOf(id).url.tail = id \o <<".", "jpg">>

\* a URL ending in the identifier and a dot, and one ending in the identifier
C18_Witness ==
    /\ ParseSucceeded
    /\ \E id \in HtmlFoundIds :
         /\ FoundUrl(id).tail = id \o <<".">>
         /\ EndsWith(ImageRefOf(id).url.tail, <<"_AC_SL1500_", ".", "jpg">>)
    /\ \E id \in HtmlFoundIds : FoundUrl(id).tail = id

OutputData == loc.call.result.data

SomePatternMatches(patterns) ==
    \E i \in 1..Len(patterns) : Search(patterns[i], loc.markdown.text).found

IsZero(x) == x.whole = <<>> /\ x.fraction = <<>>

NonNegative(x) == x.sign = 1 \/ IsZero(x)

IsWholeNumber(x) == x.fraction = <<>>

NumbersPresent ==
    /\ {"price", "rating", "reviewCount"} \subseteq DOMAIN OutputData
    /\ NonNegative(OutputData.price)
    /\ NonNegative(OutputData.rating)
    /\ NonNegative(OutputData.reviewCount) /\ IsWholeNumber(OutputData.reviewCount)

\* C19 as stated: after a successful parse price, rating and reviewCount are
\* present and non-negative, and each is 0 exactly when none of the field's
\* patterns matches the markdown view.
C19_ZeroExactlyWhenNoMatch ==
    ParseSucceeded =>
        /\ NumbersPresent
        /\ IsZero(OutputData.price) <=> ~SomePatternMatches(pricePatterns)
        /\ IsZero(OutputData.rating) <=> ~SomePatternMatches(ratingPatterns)
        /\ IsZero(OutputData.reviewCount) <=> ~SomePatternMatches(reviewPatterns)

\* C19 amended: after a successful parse price, rating and reviewCount are
\* present and non-negative, and each is 0 whenever none of the field's
\* patterns matches the markdown view.
C19_ZeroWhenNoMatch ==
    ParseSucceeded =>
        /\ NumbersPresent
        /\ ~SomePatternMatches(pricePatterns) => IsZero(OutputData.price)
        /\ ~SomePatternMatches(ratingPatterns) => IsZero(OutputData.rating)
        /\ ~SomePatternMatches(reviewPatterns) => IsZero(OutputData.reviewCount)

\* a text with a rating and neither a price nor a review count
C19_Witness ==
    /\ ParseSucceeded
    /\ ~SomePatternMatches(pricePatterns) /\ IsZero(OutputData.price)
    /\ ~SomePatternMatches(reviewPatterns) /\ IsZero(OutputData.reviewCount)
    /\ SomePatternMatches(ratingPatterns) /\ ~IsZero(OutputData.rating)

\* C20: after a successful parse the rating is a decimal between 0 and 5,
\* both included.
C20_RatingWithinFive ==
    ParseSucceeded =>
        /\ NonNegative(OutputData.rating)
        /\ \/ OutputData.rating.whole \in {<<>>, <<"1">>, <<"2">>, <<"3">>, <<"4">>}
           \/ OutputData.rating.whole = <<"5">> /\ OutputData.rating.fraction = <<>>

BlockDone == pc = "block.done"

\* the URLs that the imageBlock parser looks at, in the order of its loops
DiscoveredUrls ==
    IF \E i \in 1..Len(loc.block) : MatchesBlockPattern(loc.block[i])
    THEN SelectSeq(loc.block, MatchesBlockPattern)
    ELSE SelectSeq(loc.markdown \o loc.block \o loc.rest, MatchesBlockPattern)

\* the identifiers of the discovered URLs, each at its first occurrence
DiscoveredIds ==
    SelectSeqIdx(DiscoveredUrls,
        [i \in 1..Len(DiscoveredUrls) |->
            \A j \in 1..(i - 1) : BaseId(DiscoveredUrls[j].tail) # BaseId(DiscoveredUrls[i].tail)], 1)

ContentOf(line) == <<line[Len(line)]>>

\* C23: when the text has a '## Recommendations' heading followed by
\* well-formed list lines, every parsed entry is the content of its line with
\* the marker ('-', '*' or a numeral and its delimiter, indented or not)
\* removed.
C23_EntriesWithoutMarker ==
    ReportDone /\ HeadingThenListLines =>
        LET out == loc.sections.recommendations
        IN \A i \in 1..Min(Len(out), Len(WellFormedListed)) :
              out[i] = ContentOf(WellFormedListed[i])

\* a heading of the level of the section headings: exactly two number signs
IsSectionHeading(line) == line # <<>> /\ Head(line).c = "#" /\ Head(line).n = 2

SummaryHeadings ==
    {h \in 1..Len(loc.analysisText) : IsHeadingOf(loc.analysisText[h], "Summary")}

\* the lines behind the first '## Summary' heading that are not blank
SummaryBody ==
    {k \in (LeastOf(SummaryHeadings) + 1)..Len(loc.analysisText) : ~IsBlank(loc.analysisText[k])}

\* the heading is followed by a line of the section, not by another heading
SummaryHasBody ==
    /\ SummaryHeadings # {}
    /\ SummaryBody # {}
    /\ ~StartsHeading(loc.analysisText[LeastOf(SummaryBody)])

\* the lines of the section up to the next heading of the level of the
\* section headings or the end of the text, trimmed
SectionToSameLevel ==
    LET text == loc.analysisText
        k == LeastOf(SummaryBody)
        stops == {j \in (k + 1)..Len(text) : IsSectionHeading(text[j])}
        last == IF stops = {} THEN Len(text) ELSE LeastOf(stops) - 1
    IN TrimLines(SubSeq(text, k, last))

\* C24: the summary is the text from the '## Summary' heading to the next
\* heading of the same level or the end of the text; a '###' line inside the
\* section does not end it.
C24_SectionEndsAtSameLevel ==
    ReportDone /\ SummaryHasBody => loc.sections.summary = SectionToSameLevel

InStage(stage) == pc \in {stage, stage \o ".loop"}

\* the step with which a stage hands its partial state to the caller
StageReturns(stage) == pc = stage \o ".loop" /\ pc' = NodeAfter(stage)

\* the run state after the merge differs from the one the stage was given in
\* the owned field and the error log only, which are the stage's own copies
OnlyOwnedAndLog(owned) ==
    /\ DOMAIN state' = DOMAIN state
    /\ \A k \in DOMAIN state \ {owned, "errors"} : state'[k] = state[k]
    /\ state'[owned] = loc[owned]
    /\ state'.errors = loc.errors
    /\ IsPrefix(state.errors, loc.errors)

\* C25: while scrapeListings or analyzeImages runs, the run state it was
\* given does not change (its maps and its error log stay as they were); what
\* the stage worked out reaches the run state only when the returned partial
\* state, the owned field and the error log, is merged in.
C25_StagesDoNotMutateInput ==
    [][/\ \A stage \in {"scrape", "analyzeImages"} :
             (InStage(stage) /\ ~StageReturns(stage)) => state' = state
       /\ StageReturns("scrape") => OnlyOwnedAndLog("scrapedListings")
       /\ StageReturns("analyzeImages") => OnlyOwnedAndLog("imageAnalysis")]_vars

\* analyzeImages has stored a record and logged an error in its own copies
\* while the state it was given still has neither
C25_Witness ==
    /\ pc = "analyzeImages.loop"
    /\ MapSize(state.scrapedListings) > 0
    /\ MapSize(loc.imageAnalysis) > MapSize(state.imageAnalysis)
    /\ Len(loc.errors) > Len(state.errors)

AnalyzeReturned == pc = NodeAfter("analyzeImages")

OkImagesOf(asin) == SelectSeq(trace, LAMBDA e : IsOkImage(e) /\ e.asin = asin)

FailedImagesOf(asin) == SelectSeq(trace, LAMBDA e : IsFailedImage(e) /\ e.asin = asin)

\* C26: after analyzeImages returns, the image-analysis map holds a record for
\* every identifier of the listing map and for no other; the record carries
\* the identifier and one entry per image analysed, so a listing without
\* images and a listing all of whose selected images failed have a record
\* with an empty image sequence, errors logged or not.
C26_RecordForEveryListing ==
    AnalyzeReturned =>
        /\ MapSize(state.imageAnalysis) = MapSize(state.scrapedListings)
        /\ \A k \in 1..MapSize(state.scrapedListings) :
             LET asin == state.scrapedListings[k].key
             IN /\ MapHas(state.imageAnalysis, asin)
                /\ MapGet(state.imageAnalysis, asin).asin = asin
                /\ Len(MapGet(state.imageAnalysis, asin).images) = Len(OkImagesOf(asin))
                /\ (state.scrapedListings[k].val.images = <<>>
                      \/ OkImagesOf(asin) = <<>>) =>
                        MapGet(state.imageAnalysis, asin).images = <<>>

\* one listing had no image, the other lost its only image and logged the
\* error, and both have an empty record
C26_Witness ==
    /\ AnalyzeReturned
    /\ MapSize(state.scrapedListings) = 2
    /\ \E j, k \in 1..2 :
         /\ state.scrapedListings[j].val.images = <<>>
         /\ state.scrapedListings[k].val.images # <<>>
         /\ FailedImagesOf(state.scrapedListings[k].key) # <<>>
         /\ ErrorsFor(state.errors, state.scrapedListings[k].key) # {}
         /\ MapGet(state.imageAnalysis, state.scrapedListings[j].key).images = <<>>
         /\ MapGet(state.imageAnalysis, state.scrapedListings[k].key).images = <<>>

\* the step in which one selected image is processed, whatever the outcome
ImageStep ==
    /\ pc = "analyzeImages.loop"
    /\ Len(trace') > Len(trace)
    /\ trace'[Len(trace) + 1].ev = "image"

NewAnalyzeErrors == SubSeq(loc.errors, Len(state.errors) + 1, Len(loc.errors))

\* the results a listing must hold: its analysed images, in position order
AnalysedInOrder(asin, imgs) ==
    LET okPositions == {OkImagesOf(asin)[i].pos : i \in 1..Len(OkImagesOf(asin))}
        kept == SelectSeq(imgs, LAMBDA im : im.position \in okPositions)
    IN [i \in 1..Len(kept) |-> [url |-> kept[i].url]]

\* C27: each selected image yields exactly one of two outcomes, a result
\* appended to the listing's record or one error entry of the image analysis
\* step, never both; so per listing the results recorded plus the error
\* entries appended number min(5, images), and the results recorded are the
\* analysed images in position order.
C27_OneOutcomePerImage ==
    /\ [][ImageStep =>
            LET e == trace'[Len(trace) + 1]
                image == ImagesToAnalyze(CurrentListing.val)[loc.ii]
            IN \/ /\ IsOkImage(e)
                  /\ loc'.images = Append(loc.images, [url |-> image.url])
                  /\ loc'.errors = loc.errors
               \/ /\ IsFailedImage(e)
                  /\ loc'.images = loc.images
                  /\ Len(loc'.errors) = Len(loc.errors) + 1
                  /\ IsPrefix(loc.errors, loc'.errors)]_vars
    /\ [](AnalyzeDone =>
            \A k \in 1..MapSize(state.scrapedListings) :
               LET asin == state.scrapedListings[k].key
                   imgs == state.scrapedListings[k].val.images
                   rec == MapGet(loc.imageAnalysis, asin)
               IN /\ Len(rec.images) + Cardinality(ErrorsFor(NewAnalyzeErrors, asin))
                       = Min(5, Len(imgs))
                  /\ rec.images = AnalysedInOrder(asin, imgs))

\* a listing with 8 images of which the second and the fourth failed holds
\* three results and two new error entries
C27_Witness ==
    /\ AnalyzeDone
    /\ \E k \in 1..MapSize(state.scrapedListings) :
         LET asin == state.scrapedListings[k].key
         IN /\ Len(state.scrapedListings[k].val.images) = 8
            /\ Len(MapGet(loc.imageAnalysis, asin).images) = 3
            /\ Cardinality(ErrorsFor(NewAnalyzeErrors, asin)) = 2
            /\ {FailedImagesOf(asin)[i].pos : i \in 1..Len(FailedImagesOf(asin))} = {2, 4}

StepEntries(step) == SelectSeq(state.errors, LAMBDA e : e.step = step)

FailedImages == SelectSeq(trace, LAMBDA e : IsFailedImage(e))

FailedInvokes == SelectSeq(trace, LAMBDA e : e.ev = "invoke" /\ e.resp.status # "ok")

\* C28: in the core-workflow driver, once the error lists returned by the
\* image-analysis and report stages are merged into the state, the state's
\* error log holds every logged failure exactly once: one image entry per
\* image that failed and one report entry when the report failed.
C28_DriverLogsEachFailureOnce ==
    pc = "driver.done" =>
        /\ Len(StepEntries("rekognition")) = Len(FailedImages)
        /\ Len(StepEntries("chatgpt")) = Len(FailedInvokes)
        /\ Len(state.errors) = Len(FailedImages) + Len(FailedInvokes)

MarkdownText == loc.markdown.text

RunTokens == Digits \cup {","}

\* the digit runs, separators included, that stand immediately before the
\* word "ratings" or "reviews", each as its first and last position
RunsBeforeCountWord ==
    {r \in (1..Len(MarkdownText)) \X (1..Len(MarkdownText)) :
        /\ r[1] <= r[2]
        /\ \A k \in r[1]..r[2] : MarkdownText[k] \in RunTokens
        /\ r[1] = 1 \/ MarkdownText[r[1] - 1] \notin RunTokens
        /\ \E w \in (r[2] + 1)..Len(MarkdownText) :
              /\ MarkdownText[w] \in {"ratings", "reviews"}
              /\ \A k \in (r[2] + 1)..(w - 1) : MarkdownText[k] \in WhiteSpace}

RunText(r) == SubSeq(MarkdownText, r[1], r[2])

\* digits only, or groups of three digits behind separators
IsWrittenNumber(run) ==
    \/ \A k \in 1..Len(run) : run[k] \in Digits
    \/ /\ run[1] \in Digits
       /\ \A k \in 1..Len(run) : (run[Len(run) - k + 1] = ",") <=> (k % 4 = 0)

\* C29: when the markdown has a run of digits, with or without thousands
\* separators, immediately before "ratings" or "reviews", reviewCount is the
\* integer value of that entire run with the separators removed, for runs of
\* more than three digits without separators too.
C29_ReviewCountIsWholeRun ==
    ParseSucceeded /\ (\E r \in RunsBeforeCountWord : IsWrittenNumber(RunText(r))) =>
        \E r \in RunsBeforeCountWord :
            /\ IsWrittenNumber(RunText(r))
            /\ OutputData.reviewCount = parseInt(RunText(r))

RecognisedExtensions == {"jpg", "jpeg", "png", "gif"}

\* C30: every ImageRef url of the output ends with a recognised image
\* extension (.jpg, .jpeg, .png or .gif) whatever the form of the URL found
\* (with or without a resolution token, truncated after the identifier or
\* the token, or with another extension), and rewriting the returned url
\* once more leaves it unchanged.
C30_UrlsEndInImageExtension ==
    ParseSucceeded =>
        \A i \in 1..Len(OutputImages) :
            /\ EndsWithExtension(OutputImages[i].url.tail, RecognisedExtensions)
            /\ FixUrl(OutputImages[i].url.tail) = OutputImages[i].url.tail

====
